---- MODULE Spec2Model ----
(***************************************************************************)
(* A model of the Dove interpreter pipeline (dove-core + dove-cli):        *)
(* tokens -> Importer -> Parser -> Resolver -> Interpreter, driven by      *)
(* Dove::run, Dove::run_file and the REPL loop Dove::run_prompt.           *)
(*                                                                         *)
(* Source text is a string, scanned character by character.  Runtime       *)
(* values live in a heap of                                                *)
(* reference-counted cells (environments, arrays, dictionaries, callables, *)
(* classes, instances), addressed by index, so that sharing is explicit.   *)
(***************************************************************************)
EXTENDS Integers, Sequences, FiniteSets, TLC

VARIABLES
    pc,                  \* the driver: "start", "import", "interpret", "prompt", "exit", "aborted"
    mode,                \* "none", "file" (run_file) or "repl" (run_prompt)
    hash_order,          \* the iteration order of this process's HashMaps
    overflow_checks,     \* whether the build panics on integer overflow (debug) or wraps
    heap,                \* every Rc cell allocated so far
    environment,         \* Interpreter.environment: index of the current frame
    locals,              \* Interpreter.locals: (line, lexeme) -> depth
    had_runtime_error,   \* Interpreter.error_handler.had_runtime_error
    sink,                \* everything sent to the DoveOutput, in order
    statements,          \* the statements Interpreter::interpret is iterating over
    next_stmt,           \* index of the next statement of `statements`
    is_repl_unfinished,  \* Dove.is_repl_unfinished
    code_buffer,         \* run_prompt's code_buffer
    inputs,              \* how many inputs the driver has run
    batch,               \* the source text of the batch being run
    origin,              \* history: for each line of code_buffer, the input it came from
    run_start,           \* history: the length of the sink when the current run began
    sites,               \* history: token position -> depth the resolver computed
    accesses,            \* history: (token position, depth used) of executed accesses
    executed,            \* history: the top-level statements executed, with their outcome
    visited_imports,     \* Dove.visited_imports
    callers,             \* the calls of Dove::run that are in their loop over the imports
    exit_code            \* the code process::exit was called with

\* ------------------------------------------------------------------------
\* Generic helpers
\* ------------------------------------------------------------------------

\* Option::None
None == [t |-> "None"]

\* An empty HashMap
EmptyMap == [x \in {} |-> None]

\* HashMap::insert
MapPut(m, k, v) == [x \in (DOMAIN m) \cup {k} |-> IF x = k THEN v ELSE m[x]]

\* HashMap::remove
MapDel(m, k) == [x \in (DOMAIN m) \ {k} |-> m[x]]

\* HashMap::get
MapGet(m, k) == IF k \in DOMAIN m THEN m[k] ELSE None

Abs(x) == IF x < 0 THEN -x ELSE x

RECURSIVE Gcd(_, _)
Gcd(a, b) == IF b = 0 THEN a ELSE Gcd(b, a % b)

\* ------------------------------------------------------------------------
\* Literals (token.rs): the runtime values
\* ------------------------------------------------------------------------

\* Literals::Number(f64); the value is the rational n/d in lowest terms, d > 0.
\* d = 0 holds what a division by zero leaves: 1/0 and -1/0 the infinities,
\* 0/0 the NaN.
Number(n, d) ==
    IF d = 0
    THEN [t |-> "Number", n |-> IF n > 0 THEN 1 ELSE IF n < 0 THEN -1 ELSE 0, d |-> 0]
    ELSE LET g == Gcd(Abs(n), Abs(d))
             sign == IF d < 0 THEN -1 ELSE 1
         IN [t |-> "Number", n |-> sign * (n \div g), d |-> sign * (d \div g)]

IntNumber(n) == [t |-> "Number", n |-> n, d |-> 1]

Boolean(b) == [t |-> "Boolean", v |-> b]

Nil == [t |-> "Nil"]

String(s) == [t |-> "String", v |-> s]

\* Literals::Tuple(Box<Vec<Literals>>): owned, copied on clone
Tuple(items) == [t |-> "Tuple", v |-> items]

\* Shared cells: Rc<...>, identified by their heap index
Array(ref) == [t |-> "Array", ref |-> ref]

Dictionary(ref) == [t |-> "Dictionary", ref |-> ref]

Function(ref) == [t |-> "Function", ref |-> ref]

Class(ref) == [t |-> "Class", ref |-> ref]

Instance(ref) == [t |-> "Instance", ref |-> ref]

\* f64::fract() != 0.0
HasFract(v) == v.d = 0 \/ v.n % v.d # 0

\* f64::floor, f64::ceil and the truncation of `as usize`, `as isize`, `as i32`,
\* on the finite numbers
Floor(v) == v.n \div v.d

Ceil(v) == -((-v.n) \div v.d)

Trunc(v) == IF v.d = 0 THEN 0 ELSE IF v.n >= 0 THEN Floor(v) ELSE Ceil(v)

\* Literals::to_string: the variant's name
TypeName(v) == v.t

\* Literals::unwrap_usize: Err(()) is None
unwrap_usize(v) ==
    IF v.t # "Number" THEN None
    ELSE IF HasFract(v) \/ v.n < 0 THEN None
    ELSE [t |-> "Some", v |-> v.n]

\* DictKey::StringKey / DictKey::NumberKey
StringKey(s) == [dk |-> "StringKey", s |-> s]

NumberKey(n) == [dk |-> "NumberKey", n |-> n]

\* ------------------------------------------------------------------------
\* Heap cells and Environment (environment.rs)
\* ------------------------------------------------------------------------

\* Rc::new(RefCell::new(cell)): the new cell's index is Len(heap) + 1
Alloc(h, cell) == Append(h, cell)

NewRef(h) == Len(h) + 1

\* Environment::new(enclosing); enclosing = 0 stands for Option::None
Environment_new(enclosing) ==
    [k |-> "env", enclosing |-> enclosing, values |-> EmptyMap]

\* Environment::get
Environment_get(h, env, name) == MapGet(h[env].values, name)

\* Environment::get_at: one lookup in the frame `distance` steps up
RECURSIVE Environment_get_at(_, _, _, _)
Environment_get_at(h, env, distance, name) ==
    IF distance <= 0 THEN Environment_get(h, env, name)
    ELSE IF h[env].enclosing = 0 THEN None
    ELSE Environment_get_at(h, h[env].enclosing, distance - 1, name)

\* an assign that inserts the name where the frame does not have it
assign_or_define(h, env, name, value) ==
    [heap |-> [h EXCEPT ![env].values = MapPut(@, name, value)], ok |-> TRUE]

\* Environment::assign: writes only an existing name
Environment_assign(h, env, name, value) ==
    IF name \in DOMAIN h[env].values
    THEN [heap |-> [h EXCEPT ![env].values = MapPut(@, name, value)], ok |-> TRUE]
    ELSE [heap |-> h, ok |-> FALSE]

\* Environment::assign_at
RECURSIVE Environment_assign_at(_, _, _, _, _)
Environment_assign_at(h, env, distance, name, value) ==
    IF distance <= 0 THEN Environment_assign(h, env, name, value)
    ELSE IF h[env].enclosing = 0 THEN [heap |-> h, ok |-> FALSE]
    ELSE Environment_assign_at(h, h[env].enclosing, distance - 1, name, value)

\* Environment::define
Environment_define(h, env, name, value) ==
    [h EXCEPT ![env].values = MapPut(@, name, value)]

\* ------------------------------------------------------------------------
\* Output sink and error handlers (error_handler.rs)
\* ------------------------------------------------------------------------

\* DoveOutput::print / DoveOutput::error: one entry of the sink
Printed(msg) == [kind |-> "print", msg |-> msg]

Reported(msg) == [kind |-> "error", msg |-> msg]

\* ErrorHandler::report; line = 0 stands for Option::None
ErrorHandler_report(line, where_, message) ==
    IF line # 0
    THEN Reported("[line " \o ToString(line) \o "] Error" \o where_ \o ": " \o message)
    ELSE Reported("Error: " \o message)

\* CompiletimeErrorHandler::line_error
line_error(line, message) == ErrorHandler_report(line, "", message)

\* CompiletimeErrorHandler::token_error
token_error(token, message) ==
    IF token.token_type = "EOF"
    THEN ErrorHandler_report(token.line, " at end", message)
    ELSE ErrorHandler_report(token.line, " at '" \o token.lexeme \o "'", message)

\* ------------------------------------------------------------------------
\* Scanner (scanner.rs)
\* ------------------------------------------------------------------------

\* Token::new; pos (history) names the token: the number of the run that scanned
\* it and its index in the scanned vector
Token(token_type, lexeme, literal, line, pos) ==
    [token_type |-> token_type, lexeme |-> lexeme, literal |-> literal,
     line |-> line, pos |-> pos]

\* constants::keywords::KEYWORD_TOKENS
KEYWORD_TOKENS ==
    [and |-> "AND", break |-> "BREAK", class |-> "CLASS", continue |-> "CONTINUE",
     else |-> "ELSE", false |-> "FALSE", fun |-> "FUN", for |-> "FOR",
     from |-> "FROM", in |-> "IN", if |-> "IF", lambda |-> "LAMBDA", let |-> "LET",
     nil |-> "NIL", not |-> "NOT", or |-> "OR", print |-> "PRINT",
     return |-> "RETURN", super |-> "SUPER", self |-> "SELF", true |-> "TRUE",
     while |-> "WHILE"]

\* the keyword of TokenType::IMPORT, which Importer::analyze looks for: the
\* keyword table of dove-core reclassifies `import` as well
IMPORT == "import"

\* char::is_digit(10)
Digits == {"0", "1", "2", "3", "4", "5", "6", "7", "8", "9"}

\* char::is_alphabetic, on the ASCII letters
Letters ==
    {"a", "b", "c", "d", "e", "f", "g", "h", "i", "j", "k", "l", "m", "n", "o", "p",
     "q", "r", "s", "t", "u", "v", "w", "x", "y", "z", "A", "B", "C", "D", "E", "F",
     "G", "H", "I", "J", "K", "L", "M", "N", "O", "P", "Q", "R", "S", "T", "U", "V",
     "W", "X", "Y", "Z"}

DigitValue(c) == CHOOSE i \in 0..9 : ToString(i) = c

\* str::parse::<f64> on a lexeme of digits with an optional ".digits"
RECURSIVE ParseNumber(_, _, _, _)
ParseNumber(lexeme, i, n, d) ==
    IF i > Len(lexeme) THEN Number(n, IF d = 0 THEN 1 ELSE d)
    ELSE LET c == SubSeq(lexeme, i, i)
         IN IF c = "." THEN ParseNumber(lexeme, i + 1, n, 1)
            ELSE ParseNumber(lexeme, i + 1, 10 * n + DigitValue(c), 10 * d)

\* Scanner::new; run (history) is the number of the run the scanner works for
Scanner_new(source, run) ==
    [source |-> source, tokens |-> <<>>, start |-> 0, current |-> 0, line |-> 1,
     had_error |-> FALSE, sink |-> <<>>, run |-> run]

\* Scanner::is_at_end
Scanner_is_at_end(sc) == sc.current >= Len(sc.source)

\* Scanner::peek and Scanner::peek_next; "" stands for the '\0' returned at the end
Scanner_peek(sc) ==
    IF Scanner_is_at_end(sc) THEN "" ELSE SubSeq(sc.source, sc.current + 1, sc.current + 1)

Scanner_peek_next(sc) ==
    IF sc.current + 1 >= Len(sc.source) THEN ""
    ELSE SubSeq(sc.source, sc.current + 2, sc.current + 2)

\* an add_token whose lexeme leaves out the first character of the slice
add_token_without_first(sc, token_type, literal) ==
    [sc EXCEPT !.tokens = Append(@, Token(token_type,
        SubSeq(sc.source, sc.start + 2, sc.current), literal, sc.line,
        <<sc.run, Len(@) + 1>>))]

\* Scanner::add_token
Scanner_add_token(sc, token_type, literal) ==
    [sc EXCEPT !.tokens = Append(@, Token(token_type,
        SubSeq(sc.source, sc.start + 1, sc.current), literal, sc.line,
        <<sc.run, Len(@) + 1>>))]

\* Scanner::match_char, when it succeeds
Scanner_match_char(sc, expected) ==
    ~Scanner_is_at_end(sc) /\ Scanner_peek(sc) = expected

Skip(sc, n) == [sc EXCEPT !.current = @ + n]

\* CompiletimeErrorHandler::line_error from the scanner
Scanner_error(sc, message) ==
    [sc EXCEPT !.had_error = TRUE, !.sink = Append(@, line_error(sc.line, message))]

\* the loop `while pred(self.peek()) { self.advance(); }` over a set of characters
RECURSIVE Scanner_advance_while(_, _)
Scanner_advance_while(sc, chars) ==
    IF Scanner_peek(sc) \in chars THEN Scanner_advance_while(Skip(sc, 1), chars) ELSE sc

\* the loop of a line comment: up to, not including, the line break
RECURSIVE Scanner_line_comment(_)
Scanner_line_comment(sc) ==
    IF Scanner_peek(sc) # "\n" /\ ~Scanner_is_at_end(sc)
    THEN Scanner_line_comment(Skip(sc, 1)) ELSE sc

\* Scanner::identifier
Scanner_identifier(sc) ==
    LET s1 == Scanner_advance_while(sc, Letters \cup Digits \cup {"_"})
        lexeme_slice == SubSeq(s1.source, s1.start + 1, s1.current)
        token_type == IF lexeme_slice = IMPORT THEN "IMPORT"
                      ELSE IF lexeme_slice \in DOMAIN KEYWORD_TOKENS
                      THEN KEYWORD_TOKENS[lexeme_slice] ELSE "IDENTIFIER"
    IN Scanner_add_token(s1, token_type, None)

\* Scanner::number
Scanner_number(sc) ==
    LET s1 == Scanner_advance_while(sc, Digits)
        s2 == IF Scanner_peek(s1) = "." /\ Scanner_peek_next(s1) \in Digits
              THEN Scanner_advance_while(Skip(s1, 1), Digits) ELSE s1
        lexeme_slice == SubSeq(s2.source, s2.start + 1, s2.current)
    IN Scanner_add_token(s2, "NUMBER", ParseNumber(lexeme_slice, 1, 0, 0))

\* Scanner::string
RECURSIVE Scanner_string(_)
Scanner_string(sc) ==
    IF Scanner_peek(sc) # "\"" /\ ~Scanner_is_at_end(sc)
    THEN Scanner_string([Skip(sc, 1) EXCEPT
             !.line = IF Scanner_peek(sc) = "\n" THEN @ + 1 ELSE @])
    ELSE IF Scanner_is_at_end(sc) THEN Scanner_error(sc, "Unterminated string.")
    ELSE LET s1 == Skip(sc, 1)
         IN Scanner_add_token(s1, "STRING",
                String(SubSeq(s1.source, s1.start + 2, s1.current - 1)))

\* Scanner::block_comment
RECURSIVE Scanner_block_comment(_)
Scanner_block_comment(sc) ==
    IF ~(Scanner_peek(sc) = "*" /\ Scanner_peek_next(sc) = "/") /\ ~Scanner_is_at_end(sc)
    THEN Scanner_block_comment([Skip(sc, 1) EXCEPT
             !.line = IF Scanner_peek(sc) = "\n" THEN @ + 1 ELSE @])
    ELSE IF Scanner_is_at_end(sc) THEN Scanner_error(sc, "Unterminated block comment.")
    ELSE Skip(sc, 2)

\* Scanner::scan_token; s is the scanner after the advance() that read c
Scanner_scan_token(sc) ==
    LET c == Scanner_peek(sc)
        s == Skip(sc, 1)
        One(token_type) == Scanner_add_token(s, token_type, None)
        Two(token_type) == Scanner_add_token(Skip(s, 1), token_type, None)
        m(expected) == Scanner_match_char(s, expected)
    IN CASE c = "(" -> One("LEFT_PAREN")
         [] c = ")" -> One("RIGHT_PAREN")
         [] c = "[" -> One("LEFT_BRACKET")
         [] c = "]" -> One("RIGHT_BRACKET")
         [] c = "{" -> One("LEFT_BRACE")
         [] c = "}" -> One("RIGHT_BRACE")
         [] c = "," -> One("COMMA")
         [] c = ":" -> One("COLON")
         [] c = "%" -> One("PERCENT")
         [] c = "+" -> IF m("=") THEN Two("PLUS_EQUAL")
                       ELSE IF m("+") THEN Two("PLUS_PLUS") ELSE One("PLUS")
         [] c = "*" -> IF m("=") THEN Two("STAR_EQUAL") ELSE One("STAR")
         [] c = "!" -> IF m("=") THEN Two("BANG_EQUAL") ELSE One("BANG")
         [] c = "=" -> IF m("=") THEN Two("EQUAL_EQUAL") ELSE One("EQUAL")
         [] c = "<" -> IF m("=") THEN Two("LESS_EQUAL") ELSE One("LESS")
         [] c = ">" -> IF m("=") THEN Two("GREATER_EQUAL") ELSE One("GREATER")
         [] c = "." -> IF m(".")
                       THEN IF Scanner_match_char(Skip(s, 1), ".")
                            THEN Scanner_add_token(Skip(s, 2), "DOT_DOT_DOT", None)
                            ELSE Two("DOT_DOT")
                       ELSE One("DOT")
         [] c = "-" -> IF m("=") THEN Two("MINUS_EQUAL")
                       ELSE IF m("-") THEN Two("MINUS_MINUS")
                       ELSE IF m(">") THEN Two("MINUS_GREATER") ELSE One("MINUS")
         [] c = "/" -> IF m(">") THEN Two("SLASH_GREATER")
                       ELSE IF m("=") THEN Two("SLASH_EQUAL")
                       ELSE IF m("<") THEN Two("SLASH_LESS")
                       ELSE IF m("/") THEN Scanner_line_comment(Skip(s, 1))
                       ELSE IF m("*") THEN Scanner_block_comment(Skip(s, 1))
                       ELSE One("SLASH")
         [] c \in {" ", "\r", "\t"} -> s
         [] c = "\n" -> [One("NEWLINE") EXCEPT !.line = @ + 1]
         [] c = "\"" -> Scanner_string(s)
         [] c \in Digits -> Scanner_number(s)
         [] c \in Letters -> Scanner_identifier(s)
         [] OTHER -> Scanner_error(s, "Unexpected character: '" \o c \o "'.")

\* Scanner::scan_tokens: the token vector, and what the scanner reported
RECURSIVE Scanner_scan_tokens(_)
Scanner_scan_tokens(sc) ==
    IF ~Scanner_is_at_end(sc) /\ ~sc.had_error
    THEN Scanner_scan_tokens(Scanner_scan_token([sc EXCEPT !.start = sc.current]))
    ELSE [tokens |-> Append(sc.tokens,
                            Token("EOF", "", None, sc.line, <<sc.run, Len(sc.tokens) + 1>>)),
          sink |-> sc.sink]

\* ------------------------------------------------------------------------
\* Importer (importer.rs)
\* ------------------------------------------------------------------------

\* Importer::analyze: the loop that scans for import strings
RECURSIVE Importer_scan(_)
Importer_scan(im) ==
    LET token == im.tokens[im.current + 1]
        is_at_end == token.token_type = "EOF"
        advanced == [im EXCEPT !.current = @ + 1]
        Error(i) == [i EXCEPT !.sink = Append(@,
                        token_error(token, "Expecting a file name after 'import' keyword."))]
    IN IF is_at_end THEN im
       ELSE IF token.token_type \in {"IMPORT", "STRING", "NEWLINE"}
       THEN IF ~im.expecting_file_name
            THEN CASE token.token_type = "IMPORT" ->
                        Importer_scan([advanced EXCEPT !.expecting_file_name = TRUE])
                   [] token.token_type = "STRING" -> advanced
                   [] OTHER -> Importer_scan(advanced)
            ELSE CASE token.token_type = "STRING" ->
                        Importer_scan([advanced EXCEPT
                            !.imports = Append(@, SubSeq(token.lexeme, 2,
                                                         Len(token.lexeme) - 1)),
                            !.expecting_file_name = FALSE])
                   [] token.token_type = "IMPORT" -> Error(advanced)
                   [] OTHER -> Importer_scan(advanced)
       ELSE IF im.expecting_file_name THEN Error(advanced)
       ELSE im

\* Importer::analyze: the tokens left once the consumed ones are drained, the
\* imports, and what the importer reported
Importer_analyze(tokens) ==
    LET im == Importer_scan([tokens |-> tokens, expecting_file_name |-> FALSE,
                             current |-> 0, imports |-> <<>>, sink |-> <<>>])
    IN [tokens |-> SubSeq(tokens, im.current + 1, Len(tokens)),
        imports |-> im.imports, sink |-> im.sink]

\* ------------------------------------------------------------------------
\* Parser (parser.rs)
\* ------------------------------------------------------------------------

\* nested_level and statement_nested_level are u32: each is held as the residue
\* modulo 2^32 that is nearest to zero (-1 is u32::MAX), and compared unsigned
u32_le(a, b) == IF (a < 0) = (b < 0) THEN a <= b ELSE b < 0

\* Result::Ok(v) / Result::Err(error) together with the parser after the call
Ok(p, v) == [p |-> p, ok |-> TRUE, v |-> v]

Err(p, error) == [p |-> p, ok |-> FALSE, v |-> error]

\* ParseError::Token / ParseError::Line
ParseError_Token(token, message) == [kind |-> "Token", token |-> token, message |-> message]

ParseError_Line(line, message) == [kind |-> "Line", line |-> line, message |-> message]

\* Parser::new
Parser_new(tokens, is_in_repl, checks) ==
    [tokens |-> tokens, current |-> 0, ignore_newline |-> FALSE,
     is_in_repl |-> is_in_repl, is_in_unfinished_blk |-> FALSE,
     had_error |-> FALSE, sink |-> <<>>, nested_level |-> 0,
     statement_nested_level |-> 0, overflow_checks |-> checks, panicked |-> FALSE]

\* Parser::peek
Parser_peek(p) == p.tokens[p.current + 1]

\* Parser::is_at_end
Parser_is_at_end(p) == Parser_peek(p).token_type = "EOF"

\* Parser::check
Parser_check(p, token_type) ==
    ~Parser_is_at_end(p) /\ Parser_peek(p).token_type = token_type

RECURSIVE Parser_rule(_, _)
\* Parser::skip_newlines: consume(NEWLINE) while it succeeds
RECURSIVE Parser_skip_newlines(_)
Parser_skip_newlines(p) ==
    IF Parser_check(p, "NEWLINE")
    THEN Parser_skip_newlines([p EXCEPT !.current = @ + 1]) ELSE p

\* Parser::peek_next_non_newline
RECURSIVE Parser_peek_next_non_newline(_, _)
Parser_peek_next_non_newline(p, index) ==
    IF p.tokens[index + 1].token_type = "NEWLINE" /\ index < Len(p.tokens)
    THEN Parser_peek_next_non_newline(p, index + 1) ELSE p.tokens[index + 1]

\* Parser::advance: the parser after the call (the token returned is Parser_peek
\* of the parser before it).  `nested_level -= 1` at zero overflows: the build
\* with overflow checks panics there, the build without wraps around.  A parser
\* that panicked is moved to the end of its tokens and stays there.
Parser_advance(p) ==
    LET token == Parser_peek(p)
        p1 == IF Parser_is_at_end(p) THEN p
              ELSE LET q == [p EXCEPT !.current = @ + 1]
                   IN IF q.ignore_newline THEN Parser_rule("Parser_skip_newlines", <<q>>) ELSE q
    IN IF token.token_type \in {"LEFT_PAREN", "LEFT_BRACKET", "LEFT_BRACE"}
       THEN [p1 EXCEPT !.nested_level = @ + 1]
       ELSE IF token.token_type \in {"RIGHT_PAREN", "RIGHT_BRACKET", "RIGHT_BRACE"}
       THEN IF p1.nested_level = 0 /\ p1.overflow_checks
            THEN [p1 EXCEPT !.panicked = TRUE, !.current = Len(p1.tokens) - 1]
            ELSE [p1 EXCEPT !.nested_level = @ - 1]
       ELSE p1

\* Parser::match_token: Some(token) is Ok, None is a failure that carries nothing
Parser_match_token(p, token_types) ==
    IF ~Parser_is_at_end(p) /\ Parser_peek(p).token_type \in token_types
    THEN Ok(Parser_rule("Parser_advance", <<p>>), Parser_peek(p))
    ELSE Err(p, None)

\* Parser::consume
Parser_consume(p, token_type) ==
    IF Parser_check(p, token_type)
    THEN Ok(Parser_rule("Parser_advance", <<p>>), Parser_peek(p))
    ELSE Err(p, ParseError_Token(Parser_peek(p),
             "Unexpected token, expected type " \o token_type \o "."))

\* Parser::consume_newline
Parser_consume_newline(p) ==
    IF ~Parser_is_at_end(p)
    THEN LET r == Parser_rule("Parser_consume", <<p, "NEWLINE">>)
         IN IF r.ok THEN Ok(Parser_rule("Parser_skip_newlines", <<r.p>>), None) ELSE r
    ELSE Ok(p, None)

\* Parser::set_ignore_newline: the parser after the call (the value returned is
\* ignore_newline of the parser before it)
Parser_set_ignore_newline(p, value) ==
    IF value THEN Parser_rule("Parser_skip_newlines", <<[p EXCEPT !.ignore_newline = TRUE]>>)
    ELSE [p EXCEPT !.ignore_newline = FALSE]

\* Parser::synchronize
RECURSIVE Parser_synchronize(_)
Parser_synchronize(p) ==
    IF ~Parser_is_at_end(p)
    THEN LET token == Parser_peek(p)
             q == Parser_rule("Parser_advance", <<p>>)
         IN IF u32_le(q.nested_level, q.statement_nested_level)
               /\ token.token_type = "NEWLINE"
            THEN Parser_rule("Parser_set_ignore_newline", <<q, FALSE>>)
            ELSE Parser_synchronize(q)
    ELSE Parser_rule("Parser_set_ignore_newline", <<p, FALSE>>)

\* Parser::handle_error; nothing reaches the sink once the process has panicked
Parser_handle_error(p, error) ==
    LET q == Parser_rule("Parser_synchronize", <<p>>)
    IN IF q.panicked THEN q
       ELSE IF error.kind = "Token"
       THEN IF q.is_in_repl /\ (\E i \in 1..Len(error.message) - 10 :
                                    SubSeq(error.message, i, i + 10) = "RIGHT_BRACE")
            THEN [q EXCEPT !.is_in_unfinished_blk = TRUE]
            ELSE [q EXCEPT !.had_error = TRUE,
                           !.sink = Append(@, token_error(error.token, error.message))]
       ELSE [q EXCEPT !.had_error = TRUE,
                      !.sink = Append(@, line_error(error.line, error.message))]

\* Parser::handle_newline_error
Parser_handle_newline_error(p) ==
    Parser_rule("Parser_handle_error", <<p,
        ParseError_Token(Parser_peek(p), "Expected newline after statement.")>>)

RECURSIVE Parser_declaration(_), Parser_class_decl(_), Parser_class_methods(_, _),
          Parser_fun_decl(_), Parser_var_decl(_), Parser_statement(_),
          Parser_block(_), Parser_block_loop(_, _), Parser_for_stmt(_),
          Parser_while_stmt(_), Parser_expression(_), Parser_assignment(_),
          Parser_lambda(_), Parser_if_expr(_), Parser_binary(_, _, _, _),
          Parser_level(_, _), Parser_level_rest(_, _, _), Parser_range(_, _), Parser_unary(_), Parser_call(_),
          Parser_call_loop(_, _), Parser_primary(_), Parser_arguments(_, _),
          Parser_key_value_pairs(_, _)

\* Parser::declaration: Some(statement) is Ok, None is a failure
Parser_declaration(p0) ==
    LET q == Parser_rule("Parser_skip_newlines", <<p0>>)
        p == [q EXCEPT !.statement_nested_level = q.nested_level]
        token_type == Parser_peek(p).token_type
        declaration == CASE token_type = "CLASS" -> Parser_rule("Parser_class_decl", <<p>>)
                         [] token_type = "FUN" -> Parser_rule("Parser_fun_decl", <<p>>)
                         [] token_type = "LET" -> Parser_rule("Parser_var_decl", <<p>>)
                         [] OTHER -> Parser_rule("Parser_statement", <<p>>)
    IN IF declaration.ok THEN declaration
       ELSE Err(Parser_rule("Parser_handle_error", <<declaration.p, declaration.v>>), None)

\* Parser::class_decl
Parser_class_decl(p) ==
    LET r1 == Parser_rule("Parser_consume", <<p, "CLASS">>) IN IF ~r1.ok THEN r1 ELSE
    LET r2 == Parser_rule("Parser_consume", <<r1.p, "IDENTIFIER">>) IN IF ~r2.ok THEN r2 ELSE
    LET from == Parser_rule("Parser_consume", <<r2.p, "FROM">>)
        r3 == IF from.ok THEN Parser_rule("Parser_consume", <<from.p, "IDENTIFIER">>) ELSE Ok(r2.p, None)
    IN IF ~r3.ok THEN r3 ELSE
    LET r4 == Parser_rule("Parser_consume", <<r3.p, "LEFT_BRACE">>) IN IF ~r4.ok THEN r4 ELSE
    LET r5 == Parser_rule("Parser_class_methods", <<Parser_rule("Parser_skip_newlines", <<r4.p>>), <<>> >>)
    IN IF ~r5.ok THEN r5 ELSE
    LET r6 == Parser_rule("Parser_consume", <<r5.p, "RIGHT_BRACE">>) IN IF ~r6.ok THEN r6 ELSE
    Ok(r6.p, [s |-> "Class", name |-> r2.v, superclass |-> r3.v, methods |-> r5.v])

\* the loop of class_decl that collects the methods
Parser_class_methods(p, functions) ==
    IF ~Parser_check(p, "RIGHT_BRACE") /\ ~Parser_is_at_end(p)
    THEN LET r == Parser_rule("Parser_fun_decl", <<p>>)
         IN IF ~r.ok THEN r
            ELSE Parser_class_methods(Parser_rule("Parser_skip_newlines", <<r.p>>), Append(functions, r.v))
    ELSE Ok(p, functions)

\* Parser::parameters
RECURSIVE Parser_parameters(_, _)
Parser_parameters(p, parameters) ==
    LET r == Parser_rule("Parser_consume", <<p, "IDENTIFIER">>)
    IN IF r.ok
       THEN LET c == Parser_rule("Parser_consume", <<r.p, "COMMA">>)
            IN IF c.ok THEN Parser_parameters(c.p, Append(parameters, r.v))
               ELSE Ok(r.p, Append(parameters, r.v))
       ELSE Ok(p, parameters)

\* Parser::fun_decl
Parser_fun_decl(p) ==
    LET r1 == Parser_rule("Parser_consume", <<p, "FUN">>) IN IF ~r1.ok THEN r1 ELSE
    LET r2 == Parser_rule("Parser_consume", <<r1.p, "IDENTIFIER">>) IN IF ~r2.ok THEN r2 ELSE
    LET r3 == Parser_rule("Parser_consume", <<r2.p, "LEFT_PAREN">>) IN IF ~r3.ok THEN r3 ELSE
    LET prev == r3.p.ignore_newline
        r4 == Parser_rule("Parser_parameters", <<Parser_rule("Parser_set_ignore_newline", <<r3.p, TRUE>>), <<>> >>)
        r5 == Parser_rule("Parser_consume", <<Parser_rule("Parser_set_ignore_newline", <<r4.p, prev>>), "RIGHT_PAREN">>)
    IN IF ~r5.ok THEN r5 ELSE
    LET r6 == Parser_rule("Parser_block", <<r5.p>>) IN IF ~r6.ok THEN r6 ELSE
    Ok(r6.p, [s |-> "Function", name |-> r2.v, params |-> r4.v, body |-> r6.v])

\* Parser::var_decl
Parser_var_decl(p) ==
    LET r1 == Parser_rule("Parser_consume", <<p, "LET">>) IN IF ~r1.ok THEN r1 ELSE
    LET r2 == Parser_rule("Parser_consume", <<r1.p, "IDENTIFIER">>) IN IF ~r2.ok THEN r2 ELSE
    LET eq == Parser_rule("Parser_consume", <<r2.p, "EQUAL">>)
        r3 == IF eq.ok THEN Parser_expression(eq.p) ELSE Ok(r2.p, None)
    IN IF ~r3.ok THEN r3 ELSE
    Ok(r3.p, [s |-> "Variable", name |-> r2.v, initializer |-> r3.v])

\* Parser::statement, with print_stmt, return_stmt, break_stmt, continue_stmt and
\* expr_stmt
Parser_statement(p) ==
    LET token_type == Parser_peek(p).token_type
    IN CASE token_type = "LEFT_BRACE" ->
              LET r1 == Parser_rule("Parser_consume", <<p, "LEFT_BRACE">>)
                  prev == r1.p.ignore_newline
                  exprs == Parser_rule("Parser_key_value_pairs", <<Parser_rule("Parser_set_ignore_newline", <<r1.p, TRUE>>), <<>> >>)
                  p2 == Parser_rule("Parser_set_ignore_newline", <<exprs.p, prev>>)
                  r2 == Parser_rule("Parser_consume", <<p2, "RIGHT_BRACE">>)
              IN IF exprs.ok /\ r2.ok
                 THEN Ok(r2.p, [s |-> "Expression",
                                expr |-> [e |-> "Dictionary", pairs |-> exprs.v]])
                 ELSE IF p2.panicked THEN Err(p2, ParseError_Line(0, ""))
                 ELSE Parser_rule("Parser_block", <<[p2 EXCEPT !.current = p.current,
                                              !.nested_level = p.nested_level]>>)
         [] token_type = "FOR" -> Parser_rule("Parser_for_stmt", <<p>>)
         [] token_type = "PRINT" ->
              LET r1 == Parser_rule("Parser_consume", <<p, "PRINT">>)
                  r2 == Parser_expression(r1.p)
              IN IF ~r2.ok THEN r2
                 ELSE Ok(r2.p, [s |-> "Print", token |-> r1.v, expr |-> r2.v])
         [] token_type = "RETURN" ->
              LET r1 == Parser_rule("Parser_consume", <<p, "RETURN">>)
              IN IF Parser_check(r1.p, "NEWLINE") \/ Parser_check(r1.p, "RIGHT_BRACE")
                 THEN Ok(r1.p, [s |-> "Return", token |-> r1.v, expr |-> None])
                 ELSE LET r2 == Parser_expression(r1.p)
                      IN IF ~r2.ok THEN r2
                         ELSE Ok(r2.p, [s |-> "Return", token |-> r1.v, expr |-> r2.v])
         [] token_type = "WHILE" -> Parser_rule("Parser_while_stmt", <<p>>)
         [] token_type = "BREAK" ->
              Ok(Parser_rule("Parser_advance", <<p>>), [s |-> "Break", token |-> Parser_peek(p)])
         [] token_type = "CONTINUE" ->
              Ok(Parser_rule("Parser_advance", <<p>>), [s |-> "Continue", token |-> Parser_peek(p)])
         [] OTHER ->
              LET r == Parser_expression(p)
              IN IF ~r.ok THEN r ELSE Ok(r.p, [s |-> "Expression", expr |-> r.v])

\* Parser::block
Parser_block(p) ==
    LET r1 == Parser_rule("Parser_consume", <<Parser_rule("Parser_skip_newlines", <<p>>), "LEFT_BRACE">>)
    IN IF ~r1.ok THEN r1 ELSE
    LET p1 == Parser_rule("Parser_skip_newlines", <<r1.p>>)
        prev == p1.ignore_newline
        r2 == Parser_rule("Parser_block_loop", <<Parser_rule("Parser_set_ignore_newline", <<p1, FALSE>>), <<>> >>)
    IN IF ~r2.ok THEN r2 ELSE
    LET r3 == Parser_rule("Parser_consume", <<Parser_rule("Parser_set_ignore_newline", <<r2.p, prev>>), "RIGHT_BRACE">>)
    IN IF ~r3.ok THEN r3 ELSE Ok(r3.p, [s |-> "Block", statements |-> r2.v])

\* the loop of block that collects the statements
Parser_block_loop(p, stmts) ==
    IF ~Parser_check(p, "RIGHT_BRACE") /\ ~Parser_is_at_end(p)
    THEN LET d == Parser_rule("Parser_declaration", <<p>>)
         IN IF d.ok
            THEN LET n == Parser_rule("Parser_consume_newline", <<d.p>>)
                 IN IF n.ok THEN Parser_block_loop(n.p, Append(stmts, d.v))
                    ELSE IF Parser_check(n.p, "RIGHT_BRACE")
                    THEN Ok(n.p, Append(stmts, d.v))
                    ELSE Parser_block_loop(Parser_rule("Parser_handle_newline_error", <<n.p>>),
                                           Append(stmts, d.v))
            ELSE Parser_block_loop(d.p, stmts)
    ELSE Ok(p, stmts)

\* Parser::for_stmt
Parser_for_stmt(p) ==
    LET r1 == Parser_rule("Parser_consume", <<p, "FOR">>) IN IF ~r1.ok THEN r1 ELSE
    LET r2 == Parser_rule("Parser_consume", <<r1.p, "IDENTIFIER">>) IN IF ~r2.ok THEN r2 ELSE
    LET r3 == Parser_rule("Parser_consume", <<r2.p, "IN">>) IN IF ~r3.ok THEN r3 ELSE
    LET r4 == Parser_rule("Parser_level", <<"logic_or", r3.p>>) IN IF ~r4.ok THEN r4 ELSE
    LET r5 == Parser_rule("Parser_block", <<r4.p>>) IN IF ~r5.ok THEN r5 ELSE
    Ok(r5.p, [s |-> "For", variable |-> r2.v, expr |-> r4.v, body |-> r5.v])

\* Parser::while_stmt
Parser_while_stmt(p) ==
    LET r1 == Parser_rule("Parser_consume", <<p, "WHILE">>) IN IF ~r1.ok THEN r1 ELSE
    LET r2 == Parser_expression(r1.p) IN IF ~r2.ok THEN r2 ELSE
    LET r3 == Parser_rule("Parser_block", <<r2.p>>) IN IF ~r3.ok THEN r3 ELSE
    Ok(r3.p, [s |-> "While", condition |-> r2.v, body |-> r3.v])

\* the loop of Parser::program; first (history) is the token each statement
\* pushed starts with
RECURSIVE Parser_program_loop(_, _)
Parser_program_loop(p, stmts) ==
    IF ~Parser_is_at_end(p)
    THEN LET d == Parser_rule("Parser_declaration", <<p>>)
             first == Parser_peek(Parser_rule("Parser_skip_newlines", <<p>>))
         IN IF d.ok
            THEN LET n == Parser_rule("Parser_consume_newline", <<d.p>>)
                 IN IF n.ok
                    THEN Parser_program_loop(n.p,
                             Append(stmts, [stmt |-> d.v, first |-> first]))
                    ELSE Parser_program_loop(Parser_rule("Parser_handle_newline_error", <<n.p>>), stmts)
            ELSE Parser_program_loop(d.p, stmts)
    ELSE Ok(p, stmts)

\* Parser::program: the statements, and the parser as Dove::run reads it afterwards
Parser_program(p) ==
    LET r == Parser_rule("Parser_program_loop", <<Parser_rule("Parser_skip_newlines", <<p>>), <<>> >>)
    IN IF ~r.ok THEN r ELSE Ok(Parser_rule("Parser_advance", <<r.p>>), r.v)

\* Parser::expression
Parser_expression(p) == Parser_assignment(p)

\* Parser::assignment
Parser_assignment(p) ==
    LET r1 == Parser_rule("Parser_lambda", <<p>>) IN IF ~r1.ok THEN r1 ELSE
    IF Parser_peek(r1.p).token_type \in
           {"EQUAL", "PLUS_EQUAL", "MINUS_EQUAL", "STAR_EQUAL", "SLASH_EQUAL",
            "PLUS_PLUS", "MINUS_MINUS"}
    THEN LET sign == Parser_peek(r1.p)
             p1 == Parser_rule("Parser_advance", <<r1.p>>)
             r2 == IF sign.token_type \in {"PLUS_PLUS", "MINUS_MINUS"}
                   THEN Ok(p1, [e |-> "Literal", value |-> IntNumber(1)])
                   ELSE Parser_expression(p1)
             expr == r1.v
         IN IF ~r2.ok THEN r2
            ELSE CASE expr.e = "Get" ->
                        Ok(r2.p, [e |-> "Set", object |-> expr.object, name |-> expr.name,
                                  value |-> r2.v])
                   [] expr.e = "IndexGet" ->
                        Ok(r2.p, [e |-> "IndexSet", object |-> expr.object,
                                  index |-> expr.index, value |-> r2.v])
                   [] expr.e = "Variable" ->
                        Ok(r2.p, [e |-> "Assign", name |-> expr.name, sign |-> sign,
                                  value |-> r2.v])
                   [] OTHER ->
                        Err(r2.p, ParseError_Line(Parser_peek(r2.p).line,
                                                  "Cannot use assignment."))
    ELSE r1

\* Parser::lambda
Parser_lambda(p) ==
    LET l == Parser_rule("Parser_consume", <<p, "LAMBDA">>)
    IN IF l.ok
       THEN LET r1 == Parser_rule("Parser_parameters", <<l.p, <<>> >>)
                r2 == Parser_rule("Parser_consume", <<r1.p, "MINUS_GREATER">>)
            IN IF ~r2.ok THEN r2 ELSE
               LET r3 == IF Parser_check(r2.p, "LEFT_BRACE") THEN Parser_rule("Parser_block", <<r2.p>>)
                         ELSE LET temp == Parser_rule("Parser_statement", <<r2.p>>)
                              IN IF ~temp.ok THEN temp
                                 ELSE Ok(temp.p, [s |-> "Block", statements |-> <<temp.v>>])
               IN IF ~r3.ok THEN r3
                  ELSE Ok(r3.p, [e |-> "Lambda", params |-> r1.v, body |-> r3.v])
       ELSE Parser_if_expr(p)

\* Parser::if_expr
Parser_if_expr(p) ==
    LET i == Parser_rule("Parser_consume", <<p, "IF">>)
    IN IF i.ok
       THEN LET r1 == Parser_rule("Parser_level", <<"logic_or", i.p>>) IN IF ~r1.ok THEN r1 ELSE
            LET r2 == Parser_rule("Parser_block", <<r1.p>>) IN IF ~r2.ok THEN r2 ELSE
            LET el == Parser_rule("Parser_consume", <<r2.p, "ELSE">>)
                r3 == IF el.ok
                      THEN IF Parser_peek(el.p).token_type = "IF"
                           THEN LET r == Parser_if_expr(el.p)
                                IN IF ~r.ok THEN r
                                   ELSE Ok(r.p, [s |-> "Expression", expr |-> r.v])
                           ELSE Parser_rule("Parser_block", <<el.p>>)
                      ELSE Ok(r2.p, [s |-> "Block", statements |-> <<>>])
            IN IF ~r3.ok THEN r3
               ELSE Ok(r3.p, [e |-> "IfExpr", condition |-> r1.v, then_stmt |-> r2.v,
                              else_stmt |-> r3.v])
       ELSE Parser_rule("Parser_level", <<"logic_or", p>>)

\* the operators each level of left-associative binary expressions matches
BinaryOperators ==
    [logic_or |-> {"OR"}, logic_and |-> {"PLUS", "AND"},
     equality |-> {"EQUAL_EQUAL", "BANG_EQUAL"},
     comparison |-> {"LESS", "GREATER", "LESS_EQUAL", "GREATER_EQUAL"},
     addition |-> {"PLUS", "MINUS"},
     multiplication |-> {"STAR", "SLASH", "SLASH_LESS", "SLASH_GREATER", "PERCENT"}]

\* the level each of them parses its operands with
BinaryOperand ==
    [logic_or |-> "logic_and", logic_and |-> "equality", equality |-> "comparison",
     comparison |-> "range", range |-> "addition", addition |-> "multiplication",
     multiplication |-> "unary"]

\* the levels from the innermost outwards
Levels ==
    <<"multiplication", "addition", "range", "comparison", "equality", "logic_and",
      "logic_or">>

\* Parser::logic_or, logic_and, equality, comparison, range, addition,
\* multiplication.  Each of them begins with `self.<operand level>()?`, so the
\* call of a level descends to Parser::unary before any of them matches a token;
\* the operand parsed, the levels run what follows their first operand from the
\* innermost outwards, up to the level called.
Parser_level(level, p) ==
    IF level = "unary" THEN Parser_unary(p)
    ELSE Parser_level_rest(Parser_unary(p), 1, level)

\* what the levels Levels[i], .., level do with their first operand; an Err of
\* the operand is the Err of each of them
Parser_level_rest(left, i, level) ==
    IF left.ok
    THEN LET done == IF Levels[i] = "range" THEN Parser_range(left.p, left.v)
                     ELSE Parser_binary(left.p, left.v, BinaryOperators[Levels[i]],
                                        BinaryOperand[Levels[i]])
         IN IF Levels[i] = level THEN done ELSE Parser_level_rest(done, i + 1, level)
    ELSE left

\* their loop `while let Some(op) = self.match_token(..)`
Parser_binary(p, left, operators, operand) ==
    LET op == Parser_rule("Parser_match_token", <<p, operators>>)
    IN IF op.ok
       THEN LET right == Parser_level(operand, op.p)
            IN IF right.ok
               THEN Parser_binary(right.p,
                        [e |-> "Binary", left |-> left, op |-> op.v, right |-> right.v],
                        operators, operand)
               ELSE right
       ELSE Ok(p, left)

\* Parser::range after its left operand
Parser_range(p, left) ==
    LET token == Parser_rule("Parser_match_token", <<p, {"DOT_DOT", "DOT_DOT_DOT"}>>)
    IN IF token.ok
       THEN LET right == Parser_level("addition", token.p)
            IN IF right.ok
               THEN Ok(right.p, [e |-> "Binary", left |-> left, op |-> token.v,
                                 right |-> right.v])
               ELSE right
       ELSE Ok(p, left)

\* Parser::unary
Parser_unary(p) ==
    LET op == Parser_rule("Parser_match_token", <<p, {"BANG", "MINUS", "NOT"}>>)
    IN IF op.ok
       THEN LET r == Parser_unary(op.p)
            IN IF ~r.ok THEN r ELSE Ok(r.p, [e |-> "Unary", op |-> op.v, right |-> r.v])
       ELSE Parser_call(p)

\* Parser::call
Parser_call(p) ==
    LET r == Parser_rule("Parser_primary", <<p>>) IN IF ~r.ok THEN r ELSE Parser_call_loop(r.p, r.v)

\* the loop of Parser::call
Parser_call_loop(p, expr) ==
    LET paren == Parser_rule("Parser_consume", <<p, "LEFT_PAREN">>)
        bracket == Parser_rule("Parser_consume", <<p, "LEFT_BRACKET">>)
        dot == Parser_rule("Parser_consume", <<p, "DOT">>)
        Get(q) == LET d == Parser_rule("Parser_consume", <<q, "DOT">>) IN IF ~d.ok THEN d ELSE
                  LET name == Parser_rule("Parser_consume", <<d.p, "IDENTIFIER">>)
                  IN IF ~name.ok THEN name
                     ELSE Parser_call_loop(name.p,
                              [e |-> "Get", object |-> expr, name |-> name.v])
    IN IF paren.ok
       THEN LET prev == paren.p.ignore_newline
                args == Parser_rule("Parser_arguments", <<Parser_rule("Parser_set_ignore_newline", <<paren.p, TRUE>>), <<>> >>)
            IN IF ~args.ok THEN args ELSE
            LET r == Parser_rule("Parser_consume", <<Parser_rule("Parser_set_ignore_newline", <<args.p, prev>>), "RIGHT_PAREN">>)
            IN IF ~r.ok THEN r
               ELSE Parser_call_loop(r.p, [e |-> "Call", callee |-> expr,
                                           paren |-> paren.v, args |-> args.v])
       ELSE IF bracket.ok
       THEN LET prev == bracket.p.ignore_newline
                index == Parser_expression(Parser_rule("Parser_set_ignore_newline", <<bracket.p, TRUE>>))
            IN IF ~index.ok THEN index ELSE
               LET r == Parser_rule("Parser_consume", <<Parser_rule("Parser_set_ignore_newline", <<index.p, prev>>),
                                       "RIGHT_BRACKET">>)
               IN IF ~r.ok THEN r
                  ELSE Parser_call_loop(r.p, [e |-> "IndexGet", object |-> expr,
                                              index |-> index.v])
       ELSE IF dot.ok THEN Get(p)
       ELSE IF Parser_check(p, "NEWLINE")
               /\ Parser_peek_next_non_newline(p, p.current + 1).token_type = "DOT"
       THEN Get(Parser_rule("Parser_skip_newlines", <<p>>))
       ELSE Ok(p, expr)

\* Parser::primary
Parser_primary(p) ==
    LET token == Parser_peek(p)
        token_type == IF Parser_is_at_end(p) THEN "EOF" ELSE token.token_type
        p1 == Parser_rule("Parser_advance", <<p>>)
    IN CASE token_type \in {"STRING", "NUMBER"} ->
              Ok(p1, [e |-> "Literal", value |-> token.literal])
         [] token_type = "TRUE" -> Ok(p1, [e |-> "Literal", value |-> Boolean(TRUE)])
         [] token_type = "FALSE" -> Ok(p1, [e |-> "Literal", value |-> Boolean(FALSE)])
         [] token_type = "NIL" -> Ok(p1, [e |-> "Literal", value |-> Nil])
         [] token_type = "IDENTIFIER" -> Ok(p1, [e |-> "Variable", name |-> token])
         [] token_type = "SELF" -> Ok(p1, [e |-> "SelfExpr", token |-> token])
         [] token_type = "SUPER" ->
              LET r1 == Parser_rule("Parser_consume", <<p1, "DOT">>) IN IF ~r1.ok THEN r1 ELSE
              LET r2 == Parser_rule("Parser_consume", <<r1.p, "IDENTIFIER">>) IN IF ~r2.ok THEN r2 ELSE
              Ok(r2.p, [e |-> "SuperExpr", token |-> token, method |-> r2.v])
         [] token_type = "LEFT_PAREN" ->
              LET prev == p1.ignore_newline
                  p2 == Parser_rule("Parser_set_ignore_newline", <<p1, TRUE>>)
                  empty == Parser_rule("Parser_consume", <<p2, "RIGHT_PAREN">>)
              IN IF empty.ok THEN Ok(empty.p, [e |-> "Tuple", items |-> <<>>]) ELSE
                 LET expr == Parser_expression(p2) IN IF ~expr.ok THEN expr ELSE
                 LET comma == Parser_rule("Parser_consume", <<expr.p, "COMMA">>)
                     exprs == IF comma.ok THEN Parser_rule("Parser_arguments", <<comma.p, <<expr.v>>>>)
                              ELSE Ok(expr.p, <<>>)
                 IN IF ~exprs.ok THEN exprs ELSE
                 LET r == Parser_rule("Parser_consume", <<Parser_rule("Parser_set_ignore_newline", <<exprs.p, prev>>),
                                         "RIGHT_PAREN">>)
                 IN IF ~r.ok THEN r
                    ELSE IF comma.ok THEN Ok(r.p, [e |-> "Tuple", items |-> exprs.v])
                    ELSE Ok(r.p, expr.v)
         [] token_type = "LEFT_BRACKET" ->
              LET prev == p1.ignore_newline
                  exprs == Parser_rule("Parser_arguments", <<Parser_rule("Parser_set_ignore_newline", <<p1, TRUE>>), <<>> >>)
              IN IF ~exprs.ok THEN exprs ELSE
              LET r == Parser_rule("Parser_consume", <<Parser_rule("Parser_set_ignore_newline", <<exprs.p, prev>>),
                                      "RIGHT_BRACKET">>)
              IN IF ~r.ok THEN r ELSE Ok(r.p, [e |-> "Array", items |-> exprs.v])
         [] token_type = "LEFT_BRACE" ->
              LET prev == p1.ignore_newline
                  exprs == Parser_rule("Parser_key_value_pairs", <<Parser_rule("Parser_set_ignore_newline", <<p1, TRUE>>), <<>> >>)
              IN IF ~exprs.ok THEN exprs ELSE
                 LET r == Parser_rule("Parser_consume", <<Parser_rule("Parser_set_ignore_newline", <<exprs.p, prev>>),
                                         "RIGHT_BRACE">>)
                 IN IF ~r.ok THEN r ELSE Ok(r.p, [e |-> "Dictionary", pairs |-> exprs.v])
         [] OTHER -> Err(p, ParseError_Token(token, "Unexpected token."))

\* Parser::arguments: an expression that fails to parse ends the list silently
Parser_arguments(p, arguments) ==
    LET expr == Parser_expression(p)
    IN IF expr.ok
       THEN LET comma == Parser_rule("Parser_consume", <<expr.p, "COMMA">>)
            IN IF comma.ok THEN Parser_arguments(comma.p, Append(arguments, expr.v))
               ELSE Ok(expr.p, Append(arguments, expr.v))
       ELSE Ok(expr.p, arguments)

\* Parser::key_value_pairs
Parser_key_value_pairs(p, pairs) ==
    LET key == Parser_expression(p)
    IN IF key.ok
       THEN LET colon == Parser_rule("Parser_consume", <<key.p, "COLON">>) IN IF ~colon.ok THEN colon ELSE
            LET value == Parser_expression(colon.p) IN IF ~value.ok THEN value ELSE
            LET comma == Parser_rule("Parser_consume", <<value.p, "COMMA">>)
            IN IF comma.ok
               THEN Parser_key_value_pairs(comma.p, Append(pairs, <<key.v, value.v>>))
               ELSE Ok(value.p, Append(pairs, <<key.v, value.v>>))
       ELSE Ok(key.p, pairs)

\* One grammar rule of the recursive-descent parser, selected by name:
\* the method call self.<rule>(..) of parser.rs.
Parser_rule(method, a) ==
    CASE method = "Parser_declaration" -> Parser_declaration(a[1])
      [] method = "Parser_class_decl" -> Parser_class_decl(a[1])
      [] method = "Parser_class_methods" -> Parser_class_methods(a[1], a[2])
      [] method = "Parser_fun_decl" -> Parser_fun_decl(a[1])
      [] method = "Parser_var_decl" -> Parser_var_decl(a[1])
      [] method = "Parser_statement" -> Parser_statement(a[1])
      [] method = "Parser_block" -> Parser_block(a[1])
      [] method = "Parser_block_loop" -> Parser_block_loop(a[1], a[2])
      [] method = "Parser_for_stmt" -> Parser_for_stmt(a[1])
      [] method = "Parser_while_stmt" -> Parser_while_stmt(a[1])
      [] method = "Parser_lambda" -> Parser_lambda(a[1])
      [] method = "Parser_level" -> Parser_level(a[1], a[2])
      [] method = "Parser_primary" -> Parser_primary(a[1])
      [] method = "Parser_arguments" -> Parser_arguments(a[1], a[2])
      [] method = "Parser_key_value_pairs" -> Parser_key_value_pairs(a[1], a[2])
      [] method = "Parser_program_loop" -> Parser_program_loop(a[1], a[2])
      [] method = "Parser_skip_newlines" -> Parser_skip_newlines(a[1])
      [] method = "Parser_advance" -> Parser_advance(a[1])
      [] method = "Parser_match_token" -> Parser_match_token(a[1], a[2])
      [] method = "Parser_consume" -> Parser_consume(a[1], a[2])
      [] method = "Parser_consume_newline" -> Parser_consume_newline(a[1])
      [] method = "Parser_set_ignore_newline" -> Parser_set_ignore_newline(a[1], a[2])
      [] method = "Parser_synchronize" -> Parser_synchronize(a[1])
      [] method = "Parser_handle_error" -> Parser_handle_error(a[1], a[2])
      [] method = "Parser_handle_newline_error" -> Parser_handle_newline_error(a[1])
      [] method = "Parser_parameters" -> Parser_parameters(a[1], a[2])

\* ------------------------------------------------------------------------
\* Resolver (resolver.rs)
\* ------------------------------------------------------------------------

\* Resolver::new over the interpreter's locals; `sites` (history) records, for
\* each reference token, the depth resolve_local computed for it
Resolver_new(interpreter_locals, interpreter_sites) ==
    [scopes |-> <<>>, locals |-> interpreter_locals, sites |-> interpreter_sites,
     sink |-> <<>>, current_function |-> "None", current_class |-> "None",
     in_loop |-> FALSE]

\* CompiletimeErrorHandler::token_error from the resolver
Resolver_error(rs, token, message) ==
    [rs EXCEPT !.sink = Append(@, token_error(token, message))]

\* Resolver::begin_scope
Resolver_begin_scope(rs) == [rs EXCEPT !.scopes = Append(@, EmptyMap)]

\* Resolver::end_scope
Resolver_end_scope(rs) == [rs EXCEPT !.scopes = SubSeq(@, 1, Len(@) - 1)]

\* self.scopes.last_mut().unwrap().insert(name, value)
Resolver_insert(rs, name, value) ==
    [rs EXCEPT !.scopes[Len(rs.scopes)] = MapPut(@, name, value)]

\* Resolver::declare
Resolver_declare(rs, token) ==
    IF rs.scopes = <<>> THEN rs
    ELSE IF token.lexeme \in DOMAIN rs.scopes[Len(rs.scopes)]
    THEN Resolver_error(rs, token,
             "Variable with this name already declared in this scope.")
    ELSE Resolver_insert(rs, token.lexeme, FALSE)

\* Resolver::define
Resolver_define(rs, token) ==
    IF rs.scopes = <<>> THEN rs ELSE Resolver_insert(rs, token.lexeme, TRUE)

\* Interpreter::resolve and Interpreter::insert_local: the key is the token's
\* line and lexeme
insert_local(interpreter_locals, variable, depth) ==
    MapPut(interpreter_locals, <<variable.line, variable.lexeme>>, depth)

\* Resolver::resolve_local
Resolver_resolve_local(rs, token) ==
    LET found == {depth \in 0..Len(rs.scopes) - 1 :
                     token.lexeme \in DOMAIN rs.scopes[Len(rs.scopes) - depth]}
    IN IF found = {} THEN rs
       ELSE LET depth == CHOOSE d \in found : \A o \in found : d <= o
            IN [rs EXCEPT !.locals = insert_local(@, token, depth),
                          !.sites = MapPut(@, token.pos, depth)]

RECURSIVE Resolver_visit(_, _)
RECURSIVE Resolver_resolve(_, _), Resolver_visit_stmt(_, _), Resolver_visit_expr(_, _),
          Resolver_visit_exprs(_, _), Resolver_visit_function(_, _, _, _),
          Resolver_visit_methods(_, _)

\* Resolver::resolve
Resolver_resolve(rs, stmts) ==
    IF stmts = <<>> THEN rs
    ELSE Resolver_resolve(Resolver_visit("Resolver_visit_stmt", <<rs, Head(stmts)>>), Tail(stmts))

\* `for expr in exprs { self.visit_expr(expr) }`
Resolver_visit_exprs(rs, exprs) ==
    IF exprs = <<>> THEN rs
    ELSE Resolver_visit_exprs(Resolver_visit("Resolver_visit_expr", <<rs, Head(exprs)>>), Tail(exprs))

\* a visit_function that enters the function with the loop context it is declared in
visit_function_in_loop(rs, params, body, function_type) ==
    LET DeclareAll[i \in 0..Len(params)] ==
            IF i = 0
            THEN Resolver_begin_scope([rs EXCEPT !.current_function = function_type])
            ELSE Resolver_define(Resolver_declare(DeclareAll[i - 1], params[i]), params[i])
        r == Resolver_end_scope(Resolver_visit("Resolver_resolve", <<DeclareAll[Len(params)], body.statements>>))
    IN [r EXCEPT !.current_function = rs.current_function]

\* Resolver::visit_function
Resolver_visit_function(rs, params, body, function_type) ==
    LET DeclareAll[i \in 0..Len(params)] ==
            IF i = 0
            THEN Resolver_begin_scope([rs EXCEPT !.current_function = function_type,
                                                 !.in_loop = FALSE])
            ELSE Resolver_define(Resolver_declare(DeclareAll[i - 1], params[i]), params[i])
        r == Resolver_end_scope(Resolver_visit("Resolver_resolve", <<DeclareAll[Len(params)], body.statements>>))
    IN [r EXCEPT !.in_loop = rs.in_loop, !.current_function = rs.current_function]

\* the loop over the methods in visit_stmt's Stmt::Class
Resolver_visit_methods(rs, methods) ==
    IF methods = <<>> THEN rs
    ELSE LET method == Head(methods)
         IN Resolver_visit_methods(
                Resolver_visit_function(rs, method.params, method.body,
                    IF method.name.lexeme = "init" THEN "Initializer" ELSE "Method"),
                Tail(methods))

\* Resolver::visit_stmt
Resolver_visit_stmt(rs, stmt) ==
    CASE stmt.s = "Block" ->
           Resolver_end_scope(Resolver_visit("Resolver_resolve", <<Resolver_begin_scope(rs), stmt.statements>>))
      [] stmt.s = "Break" ->
           IF ~rs.in_loop
           THEN Resolver_error(rs, stmt.token,
                    "Break statements can only be used inside loops.")
           ELSE rs
      [] stmt.s = "Class" ->
           LET r1 == Resolver_define(Resolver_declare(rs, stmt.name), stmt.name)
               has_super == stmt.superclass # None
               r2 == IF has_super
                     THEN LET a == Resolver_resolve_local(r1, stmt.superclass)
                              b == IF stmt.superclass.lexeme = stmt.name.lexeme
                                   THEN Resolver_error(a, stmt.superclass,
                                            "A class cannot inherit from itself.")
                                   ELSE a
                          IN Resolver_insert(Resolver_begin_scope(b), "super", TRUE)
                     ELSE r1
               r3 == Resolver_insert(Resolver_begin_scope(r2), "self", TRUE)
               r4 == Resolver_visit_methods(
                         [r3 EXCEPT !.current_class =
                              IF has_super THEN "Subclass" ELSE "Class"],
                         stmt.methods)
               r5 == IF has_super THEN Resolver_end_scope(r4) ELSE r4
           IN Resolver_end_scope([r5 EXCEPT !.current_class = rs.current_class])
      [] stmt.s = "Continue" ->
           IF ~rs.in_loop
           THEN Resolver_error(rs, stmt.token,
                    "Continue statements can only be used inside loops.")
           ELSE rs
      [] stmt.s = "Expression" -> Resolver_visit("Resolver_visit_expr", <<rs, stmt.expr>>)
      [] stmt.s = "For" ->
           LET r1 == Resolver_visit("Resolver_visit_expr", <<rs, stmt.expr>>)
               r2 == Resolver_begin_scope([r1 EXCEPT !.in_loop = TRUE])
               r3 == Resolver_define(Resolver_declare(r2, stmt.variable), stmt.variable)
               r4 == Resolver_end_scope(Resolver_visit("Resolver_resolve", <<r3, stmt.body.statements>>))
           IN [r4 EXCEPT !.in_loop = r1.in_loop]
      [] stmt.s = "Function" ->
           Resolver_visit_function(
               Resolver_define(Resolver_declare(rs, stmt.name), stmt.name),
               stmt.params, stmt.body, "Function")
      [] stmt.s = "Print" -> Resolver_visit("Resolver_visit_expr", <<rs, stmt.expr>>)
      [] stmt.s = "Return" ->
           LET r1 == IF rs.current_function = "None"
                     THEN Resolver_error(rs, stmt.token,
                              "Cannot return from top-level code.")
                     ELSE rs
               r2 == IF rs.current_function = "Initializer"
                     THEN Resolver_error(r1, stmt.token,
                              "Cannot return a value from an initializer.")
                     ELSE r1
           IN IF stmt.expr # None THEN Resolver_visit("Resolver_visit_expr", <<r2, stmt.expr>>) ELSE r1
      [] stmt.s = "Variable" ->
           LET r1 == Resolver_declare(rs, stmt.name)
               r2 == IF stmt.initializer # None
                     THEN Resolver_visit("Resolver_visit_expr", <<r1, stmt.initializer>>) ELSE r1
           IN Resolver_define(r2, stmt.name)
      [] stmt.s = "While" ->
           LET r1 == Resolver_visit("Resolver_visit_expr", <<rs, stmt.condition>>)
               r2 == Resolver_visit_stmt([r1 EXCEPT !.in_loop = TRUE], stmt.body)
           IN [r2 EXCEPT !.in_loop = r1.in_loop]

\* Resolver::visit_expr
Resolver_visit_expr(rs, expr) ==
    CASE expr.e \in {"Array", "Tuple"} -> Resolver_visit_exprs(rs, expr.items)
      [] expr.e = "Assign" ->
           Resolver_resolve_local(Resolver_visit_expr(rs, expr.value), expr.name)
      [] expr.e = "Binary" -> Resolver_visit_exprs(rs, <<expr.left, expr.right>>)
      [] expr.e = "Call" -> Resolver_visit_exprs(rs, <<expr.callee>> \o expr.args)
      [] expr.e = "Dictionary" ->
           LET Pairs[i \in 0..Len(expr.pairs)] ==
                   IF i = 0 THEN rs
                   ELSE Resolver_visit_exprs(Pairs[i - 1], expr.pairs[i])
           IN Pairs[Len(expr.pairs)]
      [] expr.e = "Get" -> Resolver_visit_expr(rs, expr.object)
      [] expr.e = "IfExpr" ->
           Resolver_visit("Resolver_visit_stmt", <<
               Resolver_visit("Resolver_visit_stmt", <<Resolver_visit_expr(rs, expr.condition), expr.then_stmt>>),
               expr.else_stmt>>)
      [] expr.e = "IndexGet" -> Resolver_visit_exprs(rs, <<expr.object, expr.index>>)
      [] expr.e = "IndexSet" ->
           Resolver_visit_exprs(rs, <<expr.object, expr.index, expr.value>>)
      [] expr.e = "Lambda" -> Resolver_visit_function(rs, expr.params, expr.body, "Function")
      [] expr.e = "Literal" -> rs
      [] expr.e = "SelfExpr" ->
           Resolver_resolve_local(
               IF rs.current_class = "None"
               THEN Resolver_error(rs, expr.token, "Cannot use 'self' outside of a class.")
               ELSE rs,
               expr.token)
      [] expr.e = "Set" -> Resolver_visit_exprs(rs, <<expr.object, expr.value>>)
      [] expr.e = "SuperExpr" ->
           Resolver_resolve_local(
               IF rs.current_class = "None"
               THEN Resolver_error(rs, expr.token, "Cannot use 'super' outside of a class.")
               ELSE IF rs.current_class = "Class"
               THEN Resolver_error(rs, expr.token,
                        "Cannot use 'super' inside a class with no superclass.")
               ELSE rs,
               expr.token)
      [] expr.e = "Unary" -> Resolver_visit_expr(rs, expr.right)
      [] expr.e = "Variable" ->
           IF rs.scopes # <<>> /\ expr.name.lexeme \in DOMAIN rs.scopes[Len(rs.scopes)]
              /\ ~rs.scopes[Len(rs.scopes)][expr.name.lexeme]
           THEN Resolver_error(rs, expr.name,
                    "Cannot use a variable in its own initializer.")
           ELSE Resolver_resolve_local(rs, expr.name)

\* One visitor method of the resolver, selected by name.
Resolver_visit(method, a) ==
    CASE method = "Resolver_resolve" -> Resolver_resolve(a[1], a[2])
      [] method = "Resolver_visit_stmt" -> Resolver_visit_stmt(a[1], a[2])
      [] method = "Resolver_visit_expr" -> Resolver_visit_expr(a[1], a[2])

\* ------------------------------------------------------------------------
\* Interpreter helpers (interpreter.rs)
\* ------------------------------------------------------------------------

\* Interpreter.globals: the first cell Interpreter::new allocates
Globals == 1

\* is_truthy
is_truthy(literal) ==
    CASE literal.t = "Nil" -> FALSE
      [] literal.t = "Boolean" -> literal.v
      [] OTHER -> TRUE

\* HashMap::get on a dictionary cell: the index of the entry of that key, or 0
DictFind(entries, key) ==
    IF \E i \in 1..Len(entries) : entries[i].key = key
    THEN CHOOSE i \in 1..Len(entries) : entries[i].key = key ELSE 0

\* HashMap::iter on a dictionary cell: the entries in this process's order
DictIter(entries, order) ==
    IF order = "forward" THEN entries
    ELSE [i \in 1..Len(entries) |-> entries[Len(entries) + 1 - i]]

\* is_equal: "true", "false", or "panic" where it reaches
\* panic!("Comparison not supported.")
RECURSIVE is_equal(_, _, _, _)
is_equal(h, order, literal_a, literal_b) ==
    LET Bool(b) == IF b THEN "true" ELSE "false"
        \* the loop over two sequences of values, left to right
        Items[i \in Nat] ==
            LET a == IF literal_a.t = "Array" THEN h[literal_a.ref].items ELSE literal_a.v
                b == IF literal_b.t = "Array" THEN h[literal_b.ref].items ELSE literal_b.v
            IN IF i > Len(a) THEN "true"
               ELSE LET e == is_equal(h, order, a[i], b[i])
                    IN IF e = "true" THEN Items[i + 1] ELSE e
        \* the loop over the entries of the left dictionary
        Entries[i \in Nat] ==
            LET d == DictIter(h[literal_a.ref].entries, order)
                other == h[literal_b.ref].entries
            IN IF i > Len(d) THEN "true"
               ELSE LET j == DictFind(other, d[i].key)
                        e == IF j = 0 THEN "false"
                             ELSE is_equal(h, order, d[i].val, other[j].val)
                    IN IF e = "true" THEN Entries[i + 1] ELSE e
    IN CASE literal_a.t = "Array" ->
              IF literal_b.t # "Array" THEN "false"
              ELSE IF Len(h[literal_a.ref].items) # Len(h[literal_b.ref].items) THEN "false"
              ELSE Items[1]
         [] literal_a.t = "Dictionary" ->
              IF literal_b.t # "Dictionary" THEN "false"
              ELSE IF Len(h[literal_a.ref].entries) # Len(h[literal_b.ref].entries)
              THEN "false"
              ELSE Entries[1]
         [] literal_a.t = "String" -> Bool(literal_b.t = "String" /\ literal_a.v = literal_b.v)
         [] literal_a.t = "Tuple" ->
              IF literal_b.t # "Tuple" THEN "false"
              ELSE IF Len(literal_a.v) # Len(literal_b.v) THEN "false"
              ELSE Items[1]
         [] literal_a.t = "Number" ->
              Bool(literal_b.t = "Number" /\ literal_a = literal_b
                   /\ ~(literal_a.n = 0 /\ literal_a.d = 0))
         [] literal_a.t = "Boolean" -> Bool(literal_b.t = "Boolean" /\ literal_a.v = literal_b.v)
         [] literal_a.t = "Nil" -> Bool(literal_b.t = "Nil")
         [] OTHER -> "panic"

\* the digits `{}` prints after the decimal point of num/den, at most count of them
RECURSIVE FractionDigits(_, _, _)
FractionDigits(num, den, count) ==
    IF num = 0 \/ count = 0 THEN ""
    ELSE ToString((num * 10) \div den) \o FractionDigits((num * 10) % den, den, count - 1)

\* f64::to_string
Number_to_string(v) ==
    IF v.d = 0 THEN (IF v.n > 0 THEN "inf" ELSE IF v.n < 0 THEN "-inf" ELSE "NaN")
    ELSE LET a == Abs(v.n)
             whole == (IF v.n < 0 THEN "-" ELSE "") \o ToString(a \div v.d)
         IN IF a % v.d = 0 THEN whole
            ELSE whole \o "." \o FractionDigits(a % v.d, v.d, 16)

\* DictKey::stringify
DictKey_stringify(key) ==
    IF key.dk = "StringKey" THEN "\"" \o key.s \o "\"" ELSE ToString(key.n)

\* stringify: the text, or panic where it reaches panic!("Not implemented.")
RECURSIVE stringify(_, _, _)
stringify(h, order, literal) ==
    LET Text(s) == [panic |-> FALSE, s |-> s]
        \* `for item in arr.iter() { res.push_str(&format!("{}, ", ..)) }` and the
        \* truncation of the last ", "
        Items(items, open, close) ==
            LET Parts == [i \in 1..Len(items) |-> stringify(h, order, items[i])]
                Cat[i \in 0..Len(items)] ==
                    IF i = 0 THEN ""
                    ELSE Cat[i - 1] \o (IF i > 1 THEN ", " ELSE "") \o Parts[i].s
            IN IF \E i \in 1..Len(items) : Parts[i].panic
               THEN [panic |-> TRUE, s |-> ""]
               ELSE Text(open \o Cat[Len(items)] \o close)
        Entries(entries) ==
            LET Parts == [i \in 1..Len(entries) |-> stringify(h, order, entries[i].val)]
                Cat[i \in 0..Len(entries)] ==
                    IF i = 0 THEN ""
                    ELSE Cat[i - 1] \o (IF i > 1 THEN ", " ELSE "")
                         \o DictKey_stringify(entries[i].key) \o ": " \o Parts[i].s
            IN IF \E i \in 1..Len(entries) : Parts[i].panic
               THEN [panic |-> TRUE, s |-> ""]
               ELSE Text("{" \o Cat[Len(entries)] \o "}")
    IN CASE literal.t = "Array" -> Items(h[literal.ref].items, "[", "]")
         [] literal.t = "Dictionary" -> Entries(DictIter(h[literal.ref].entries, order))
         [] literal.t = "String" -> Text("\"" \o literal.v \o "\"")
         [] literal.t = "Tuple" -> Items(literal.v, "(", ")")
         [] literal.t = "Number" -> Text(Number_to_string(literal))
         [] literal.t = "Boolean" -> Text(IF literal.v THEN "true" ELSE "false")
         [] literal.t = "Nil" -> Text("nil")
         [] literal.t = "Function" -> Text("<fun ()>")
         [] OTHER -> [panic |-> TRUE, s |-> ""]

\* Result<Literals, Interrupt> together with the interpreter after the call:
\* r is "Ok", or the interrupt "Break", "Continue", "Return", "Error", or "Panic"
\* when the call panicked (the process is gone; nothing catches it)
Value(st, v) == [st |-> st, r |-> "Ok", v |-> v]

\* ErrorLocation
ErrorLocation_Token(token) == [kind |-> "Token", token |-> token]

ErrorLocation_Line(line) == [kind |-> "Line", line |-> line]

Unspecified == [kind |-> "Unspecified"]

\* Err(Interrupt::Error(RuntimeError::new(location, message)))
Interrupt_Error(st, location, message) ==
    [st |-> st, r |-> "Error", v |-> [location |-> location, message |-> message]]

\* panic!, unimplemented!, an arithmetic overflow: the process aborts
Panic(st) == [st |-> st, r |-> "Panic", v |-> "panic"]

\* Result::unwrap: on an Err the process aborts, naming the interrupt it held
unwrap(result) ==
    IF result.r = "Ok" THEN result
    ELSE [st |-> result.st, r |-> "Panic", v |-> result.r]

\* RuntimeErrorHandler::runtime_error: what it sends to the output
runtime_error(error) ==
    CASE error.location.kind = "Token" ->
           ErrorHandler_report(error.location.token.line,
               " at '" \o error.location.token.lexeme \o "'", error.message)
      [] error.location.kind = "Line" ->
           ErrorHandler_report(error.location.line, "", error.message)
      [] OTHER -> ErrorHandler_report(0, "", error.message)

\* Interpreter::get_local: whether there is an entry for the token's line and lexeme
has_local(st, variable) == <<variable.line, variable.lexeme>> \in DOMAIN st.locals

get_local(st, variable) == st.locals[<<variable.line, variable.lexeme>>]

\* history: the depth a reference token is accessed with (-1: through globals)
Accessed(st, variable) ==
    [st EXCEPT !.accesses = @ \cup
        {[pos |-> variable.pos,
          depth |-> IF has_local(st, variable) THEN get_local(st, variable) ELSE -1]}]

\* Interpreter::lookup_variable
lookup_variable(st, variable) ==
    IF has_local(st, variable)
    THEN Environment_get_at(st.heap, st.environment, get_local(st, variable),
                            variable.lexeme)
    ELSE Environment_get(st.heap, Globals, variable.lexeme)

\* i32::MAX; i32::MIN is -MaxI32 - 1
MaxI32 == 2147483647

\* a + b on i32: the value the wrapping build computes, and whether it overflowed
I32_add(a, b) ==
    IF b > 0 /\ a > MaxI32 - b
    THEN [v |-> (a - MaxI32 - 1) + (b - MaxI32 - 1), overflow |-> TRUE]
    ELSE IF b < 0 /\ a < (-MaxI32 - 1) - b
    THEN [v |-> (a + MaxI32 + 1) + (b + MaxI32 + 1), overflow |-> TRUE]
    ELSE [v |-> a + b, overflow |-> FALSE]

\* a - b on i32
I32_sub(a, b) ==
    IF b < 0 /\ a > MaxI32 + b
    THEN [v |-> (a - MaxI32 - 1) + (-(b + 1) - MaxI32), overflow |-> TRUE]
    ELSE IF b > 0 /\ a < (-MaxI32 - 1) + b
    THEN [v |-> (a + MaxI32 + 1) + (MaxI32 - b + 1), overflow |-> TRUE]
    ELSE [v |-> a - b, overflow |-> FALSE]

\* i32::abs: the absolute value of i32::MIN overflows
I32_abs(a) ==
    IF a = -MaxI32 - 1 THEN [v |-> a, overflow |-> TRUE]
    ELSE [v |-> Abs(a), overflow |-> FALSE]

\* String::repeat
RECURSIVE Repeat(_, _)
Repeat(s, n) == IF n <= 0 THEN "" ELSE s \o Repeat(s, n - 1)

\* the array that extends the left operand of `+` where it is, instead of a new one
plus_arrays_in_place(st, l, r) ==
    Value([st EXCEPT !.heap[l.ref].items = @ \o st.heap[r.ref].items], l)

\* PLUS on two arrays: the elements of both are cloned into a new array
Interpreter_plus_arrays(st, l, r) ==
    Value([st EXCEPT !.heap = Alloc(@, [k |-> "array",
               items |-> st.heap[l.ref].items \o st.heap[r.ref].items])],
          Array(NewRef(st.heap)))

\* the `match operator.token_type` of visit_expr's Expr::Binary, on the two values
Interpreter_binary(st, operator, left_val, right_val) ==
    LET l == left_val
        r == right_val
        numbers == l.t = "Number" /\ r.t = "Number"
        \* check_number_operand's error
        NotNumbers == Interrupt_Error(st, ErrorLocation_Token(operator),
            "Operands of '" \o operator.lexeme \o "' must be two numbers.")
        \* check_integer_operand
        integers == numbers /\ ~HasFract(l) /\ ~HasFract(r)
        NotIntegers == Interrupt_Error(st, ErrorLocation_Token(operator),
            "Operands of '" \o operator.lexeme \o "' must be two integers.")
        Less(a, b) == a.n * b.d < b.n * a.d
        Same(a, b) == a = b /\ ~(a.n = 0 /\ a.d = 0)
        Quotient == Number(l.n * r.d, l.d * r.n)
        \* DOT_DOT (extra = 0) and DOT_DOT_DOT (extra = 1): `right - left`, `.abs()`
        \* and `diff + 1` are i32 operations; an overflow panics in a build with
        \* overflow checks and wraps around in a build without
        Range(extra) ==
            LET left == Trunc(l)
                right == Trunc(r)
                difference == I32_sub(right, left)
                diff == I32_abs(difference.v)
                count == IF extra = 0 THEN [v |-> diff.v, overflow |-> FALSE]
                         ELSE I32_add(diff.v, 1)
                step == IF right >= left THEN 1 ELSE -1
            IN IF (difference.overflow \/ diff.overflow \/ count.overflow)
                  /\ st.overflow_checks
               THEN Panic(st)
               ELSE Value(st, Tuple([i \in 1..count.v |->
                              IntNumber(I32_add(left, (i - 1) * step).v)]))
        equal == is_equal(st.heap, st.hash_order, l, r)
        type == operator.token_type
    IN CASE type = "AND" -> Value(st, Boolean(is_truthy(l) /\ is_truthy(r)))
         [] type = "OR" -> Value(st, Boolean(is_truthy(l) \/ is_truthy(r)))
         [] type = "GREATER" ->
              IF numbers THEN Value(st, Boolean(Less(r, l))) ELSE NotNumbers
         [] type = "GREATER_EQUAL" ->
              IF numbers THEN Value(st, Boolean(Less(r, l) \/ Same(l, r))) ELSE NotNumbers
         [] type = "LESS" ->
              IF numbers THEN Value(st, Boolean(Less(l, r))) ELSE NotNumbers
         [] type = "LESS_EQUAL" ->
              IF numbers THEN Value(st, Boolean(Less(l, r) \/ Same(l, r))) ELSE NotNumbers
         [] type = "BANG_EQUAL" ->
              IF equal = "panic" THEN Panic(st) ELSE Value(st, Boolean(equal = "false"))
         [] type = "EQUAL_EQUAL" ->
              IF equal = "panic" THEN Panic(st) ELSE Value(st, Boolean(equal = "true"))
         [] type = "MINUS" ->
              IF numbers THEN Value(st, Number(l.n * r.d - r.n * l.d, l.d * r.d))
              ELSE NotNumbers
         [] type = "PERCENT" ->
              IF ~numbers THEN NotNumbers
              ELSE IF r.n = 0 \/ l.d = 0 THEN Value(st, Number(0, 0))
              ELSE IF r.d = 0 THEN Value(st, l)
              ELSE LET t == Trunc(Quotient)
                   IN Value(st, Number(l.n * r.d - t * r.n * l.d, l.d * r.d))
         [] type = "PLUS" ->
              CASE numbers -> Value(st, Number(l.n * r.d + r.n * l.d, l.d * r.d))
                [] l.t = "String" /\ r.t = "String" -> Value(st, String(l.v \o r.v))
                [] l.t = "String" /\ r.t = "Number" ->
                     Value(st, String(l.v \o Number_to_string(r)))
                [] l.t = "Number" /\ r.t = "String" ->
                     Value(st, String(Number_to_string(l) \o r.v))
                [] l.t = "Array" /\ r.t = "Array" -> Interpreter_plus_arrays(st, l, r)
                [] l.t = "Tuple" /\ r.t = "Tuple" -> Value(st, Tuple(l.v \o r.v))
                [] OTHER -> Interrupt_Error(st, ErrorLocation_Token(operator),
                       "Operands of '" \o operator.lexeme
                       \o "' must be two numbers/strings/arrays/tuples.")
         [] type = "SLASH" -> IF numbers THEN Value(st, Quotient) ELSE NotNumbers
         [] type = "SLASH_GREATER" ->
              IF ~numbers THEN NotNumbers
              ELSE IF Quotient.d = 0 THEN Value(st, Quotient)
              ELSE Value(st, IntNumber(Ceil(Quotient)))
         [] type = "SLASH_LESS" ->
              IF ~numbers THEN NotNumbers
              ELSE IF Quotient.d = 0 THEN Value(st, Quotient)
              ELSE Value(st, IntNumber(Floor(Quotient)))
         [] type = "STAR" ->
              CASE numbers -> Value(st, Number(l.n * r.n, l.d * r.d))
                [] l.t = "Number" /\ r.t = "String" ->
                     Value(st, String(Repeat(r.v, Trunc(l))))
                [] l.t = "String" /\ r.t = "Number" ->
                     Value(st, String(Repeat(l.v, Trunc(r))))
                [] OTHER -> Interrupt_Error(st, ErrorLocation_Token(operator),
                       "Operands of '" \o operator.lexeme
                       \o "' must be two numbers or a string and a number.")
         [] type = "DOT_DOT" -> IF integers THEN Range(0) ELSE NotIntegers
         [] type = "DOT_DOT_DOT" -> IF integers THEN Range(1) ELSE NotIntegers
         [] OTHER -> Interrupt_Error(st, ErrorLocation_Token(operator),
                "Unsupported operator: '" \o operator.lexeme \o "'.")

\* ------------------------------------------------------------------------
\* Callables, classes and instances (dove_callable.rs, dove_class.rs)
\* ------------------------------------------------------------------------

\* DoveFunction::new
DoveFunction_new(params, body, closure) ==
    [k |-> "fun", builtin |-> FALSE, params |-> params, body |-> body,
     closure |-> closure]

\* BuiltinFunction::new over the value the closure captured
BuiltinFunction_new(arity, name, captured) ==
    [k |-> "fun", builtin |-> TRUE, arity |-> arity, name |-> name,
     captured |-> captured]

\* DoveCallable::arity
arity(function) == IF function.builtin THEN function.arity ELSE Len(function.params)

\* DoveFunction::bind: the heap with the new environment, and the bound function
DoveFunction_bind(h, function, instance) ==
    [heap |-> Alloc(h, [k |-> "env", enclosing |-> function.closure,
                        values |-> MapPut(EmptyMap, "self", Instance(instance))]),
     function |-> DoveFunction_new(function.params, function.body, NewRef(h))]

\* a find_method that searches the class alone and never its superclass
find_own_method(h, class, name) ==
    IF name \in DOMAIN h[class].methods THEN h[class].methods[name] ELSE 0

\* DoveClass::find_method: the method's cell, or 0 for None
RECURSIVE DoveClass_find_method(_, _, _)
DoveClass_find_method(h, class, name) ==
    IF name \in DOMAIN h[class].methods THEN h[class].methods[name]
    ELSE IF h[class].superclass # 0
    THEN DoveClass_find_method(h, h[class].superclass, name)
    ELSE 0

\* a get that binds the method anew at every read and leaves the fields alone
get_without_cache(h, instance, field) ==
    IF field \in DOMAIN h[instance].fields
    THEN [heap |-> h, v |-> h[instance].fields[field]]
    ELSE LET method == DoveClass_find_method(h, h[instance].class, field)
         IN IF method = 0 THEN [heap |-> h, v |-> None]
            ELSE LET bound == DoveFunction_bind(h, h[method], instance)
                 IN [heap |-> Alloc(bound.heap, bound.function),
                     v |-> Function(NewRef(bound.heap))]

\* DoveInstance::get: the heap afterwards and Some(value), or None
DoveInstance_get(h, instance, field) ==
    IF field \in DOMAIN h[instance].fields
    THEN [heap |-> h, v |-> h[instance].fields[field]]
    ELSE LET method == DoveClass_find_method(h, h[instance].class, field)
         IN IF method = 0 THEN [heap |-> h, v |-> None]
            ELSE LET bound == DoveFunction_bind(h, h[method], instance)
                     literal == Function(NewRef(bound.heap))
                     h2 == Alloc(bound.heap, bound.function)
                 IN [heap |-> [h2 EXCEPT ![instance].fields = MapPut(@, field, literal)],
                     v |-> literal]

\* DoveObject::get_property of the String, Array and Instance objects: the heap
\* afterwards and Ok(value), or None for Err(CannotGetProperty)
get_property(h, object, name) ==
    LET Builtin(n, f) == [heap |-> Alloc(h, BuiltinFunction_new(n, f, object)),
                          v |-> Function(NewRef(h))]
        Missing == [heap |-> h, v |-> None]
    IN CASE object.t = "Array" ->
              CASE name = "len" -> Builtin(0, "array_len")
                [] name = "is_empty" -> Builtin(0, "array_is_empty")
                [] name = "push" -> Builtin(1, "array_append")
                [] name = "pop" -> Builtin(0, "array_pop")
                [] name = "remove" -> Builtin(1, "array_remove")
                [] OTHER -> Missing
         [] object.t = "String" ->
              CASE name = "len" -> Builtin(0, "string_len")
                [] name = "chars" -> Builtin(0, "string_chars")
                [] OTHER -> Missing
         [] object.t = "Instance" -> DoveInstance_get(h, object.ref, name)

\* BuiltinFunction::call: the closures of array.rs and string.rs
BuiltinFunction_call(st, function, argument_vals) ==
    LET name == function.name
        target == function.captured
        items == st.heap[target.ref].items
        SetItems(new) == [st EXCEPT !.heap[target.ref].items = new]
        index == unwrap_usize(argument_vals[1])
    IN CASE name = "array_len" -> Value(st, IntNumber(Len(items)))
         [] name = "array_is_empty" -> Value(st, Boolean(Len(items) = 0))
         [] name = "array_append" -> Value(SetItems(Append(items, argument_vals[1])), Nil)
         [] name = "array_pop" ->
              IF items = <<>> THEN Value(st, Nil)
              ELSE Value(SetItems(SubSeq(items, 1, Len(items) - 1)), items[Len(items)])
         [] name = "array_remove" ->
              IF index = None
              THEN Interrupt_Error(st, Unspecified, "Index must be an integer.")
              ELSE IF index.v >= Len(items)
              THEN Interrupt_Error(st, Unspecified, "Index out of range.")
              ELSE Value(SetItems(SubSeq(items, 1, index.v)
                                  \o SubSeq(items, index.v + 2, Len(items))),
                         items[index.v + 1])
         [] name = "string_len" -> Value(st, IntNumber(Len(target.v)))
         [] name = "string_chars" ->
              Value([st EXCEPT !.heap = Alloc(@, [k |-> "array",
                         items |-> [i \in 1..Len(target.v) |->
                                        String(SubSeq(target.v, i, i))]])],
                    Array(NewRef(st.heap)))

\* ------------------------------------------------------------------------
\* Interpreter (interpreter.rs)
\* ------------------------------------------------------------------------

RECURSIVE Interpreter_visit(_, _)
RECURSIVE Interpreter_visit_expr(_, _), Interpreter_visit_stmt(_, _),
          Interpreter_execute_all(_, _), Interpreter_execute_block(_, _, _),
          Interpreter_execute_implicit_return(_, _, _),
          Interpreter_evaluate_all(_, _, _), Interpreter_dictionary(_, _, _),
          DoveCallable_call(_, _, _), Interpreter_call(_, _),
          Interpreter_for_array(_, _, _, _), Interpreter_for_tuple(_, _, _, _),
          Interpreter_while(_, _)

\* `for stmt in statements.iter() { self.execute(stmt)? }`
Interpreter_execute_all(st, stmts) ==
    IF stmts = <<>> THEN Value(st, Nil)
    ELSE LET r == Interpreter_visit("Interpreter_visit_stmt", <<st, Head(stmts)>>)
         IN IF r.r # "Ok" THEN r ELSE Interpreter_execute_all(r.st, Tail(stmts))

\* Interpreter::execute_block: the frame is a new cell; self.environment is put
\* back on Ok and on Err alike
Interpreter_execute_block(st, stmts, env) ==
    LET r == Interpreter_execute_all(
                 [st EXCEPT !.heap = Alloc(@, env), !.environment = NewRef(st.heap)],
                 stmts)
    IN IF r.r = "Panic" THEN r ELSE [r EXCEPT !.st.environment = st.environment]

\* a block run for its effects only: its value is Nil whatever its last statement
execute_without_implicit_return(st, stmts, env) ==
    LET r == Interpreter_execute_block(st, stmts, env)
    IN IF r.r = "Ok" THEN Value(r.st, Nil) ELSE r

\* Interpreter::execute_implicit_return
Interpreter_execute_implicit_return(st, stmts, env) ==
    IF stmts # <<>> /\ stmts[Len(stmts)].s = "Expression"
    THEN LET r1 == Interpreter_execute_all(
                       [st EXCEPT !.heap = Alloc(@, env), !.environment = NewRef(st.heap)],
                       SubSeq(stmts, 1, Len(stmts) - 1))
             r2 == IF r1.r # "Ok" THEN r1
                   ELSE Interpreter_visit("Interpreter_visit_expr", <<r1.st, stmts[Len(stmts)].expr>>)
         IN IF r2.r = "Panic" THEN r2 ELSE [r2 EXCEPT !.st.environment = st.environment]
    ELSE LET r == Interpreter_execute_block(st, stmts, env)
         IN IF r.r # "Ok" THEN r ELSE Value(r.st, Nil)

\* `for expr in exprs { vals.push(self.evaluate(expr)?) }`
Interpreter_evaluate_all(st, exprs, vals) ==
    IF exprs = <<>> THEN Value(st, vals)
    ELSE LET r == Interpreter_visit("Interpreter_visit_expr", <<st, Head(exprs)>>)
         IN IF r.r # "Ok" THEN r
            ELSE Interpreter_evaluate_all(r.st, Tail(exprs), Append(vals, r.v))

\* HashMap::insert on a dictionary cell
DictInsert(entries, key, val) ==
    LET i == DictFind(entries, key)
    IN IF i = 0 THEN Append(entries, [key |-> key, val |-> val])
       ELSE [entries EXCEPT ![i].val = val]

\* the key of a dictionary access: Some(DictKey), or None where the code refuses
\* the value.  `key.fract() != 0.0` lets through the numbers that have a fraction.
DictKeyOf(literal) ==
    CASE literal.t = "String" -> StringKey(literal.v)
      [] literal.t = "Number" /\ HasFract(literal) -> NumberKey(Trunc(literal))
      [] OTHER -> None

\* visit_expr's Expr::Dictionary
Interpreter_dictionary(st, pairs, entries) ==
    IF pairs = <<>>
    THEN Value([st EXCEPT !.heap = Alloc(@, [k |-> "dict", entries |-> entries])],
               Dictionary(NewRef(st.heap)))
    ELSE LET key == unwrap(Interpreter_visit("Interpreter_visit_expr", <<st, pairs[1][1]>>))
             val == IF key.r # "Ok" THEN key
                    ELSE unwrap(Interpreter_visit("Interpreter_visit_expr", <<key.st, pairs[1][2]>>))
         IN IF val.r # "Ok" THEN val
            ELSE IF DictKeyOf(key.v) = None
            THEN Interrupt_Error(val.st, Unspecified,
                     "Only String and Integer can be used as dictionary key.")
            ELSE Interpreter_dictionary(val.st, Tail(pairs),
                     DictInsert(entries, DictKeyOf(key.v), val.v))

\* DoveCallable::call: DoveFunction::call or BuiltinFunction::call.  The result is
\* a Result<Literals, RuntimeError>: r is "Ok", "Error" or "Panic".
DoveCallable_call(st, function, argument_vals) ==
    IF function.builtin THEN BuiltinFunction_call(st, function, argument_vals)
    ELSE LET Define[i \in 0..Len(function.params)] ==
                 IF i = 0 THEN EmptyMap
                 ELSE MapPut(Define[i - 1], function.params[i].lexeme, argument_vals[i])
             env == [k |-> "env", enclosing |-> function.closure,
                     values |-> Define[Len(function.params)]]
             r == Interpreter_execute_implicit_return(st, function.body.statements, env)
         IN CASE r.r = "Return" -> Value(r.st, r.v)
              [] r.r \in {"Break", "Continue"} ->
                   Interrupt_Error(r.st, Unspecified, "Unexpected break/continue statement.")
              [] OTHER -> r

\* visit_expr's Expr::Call
Interpreter_call(st, expr) ==
    LET callee == Interpreter_visit("Interpreter_visit_expr", <<st, expr.callee>>) IN
    IF callee.r # "Ok" THEN callee ELSE
    LET args == Interpreter_evaluate_all(callee.st, expr.args, <<>>) IN
    IF args.r # "Ok" THEN args ELSE
    LET s1 == args.st
        Arity(n) == Interrupt_Error(s1, ErrorLocation_Token(expr.paren),
                        "Expected " \o ToString(n) \o " arguments but got "
                        \o ToString(Len(args.v)) \o ".")
    IN CASE callee.v.t = "Class" ->
              LET instance == NewRef(s1.heap)
                  h1 == Alloc(s1.heap, [k |-> "instance", class |-> callee.v.ref,
                                        fields |-> EmptyMap])
                  initializer == DoveClass_find_method(h1, callee.v.ref, "init")
              IN IF initializer = 0
                 THEN Value([s1 EXCEPT !.heap = h1], Instance(instance))
                 ELSE LET bound == DoveFunction_bind(h1, h1[initializer], instance)
                          r == DoveCallable_call([s1 EXCEPT !.heap = bound.heap],
                                                 bound.function, args.v)
                      IN IF Len(args.v) # arity(bound.function)
                         THEN Arity(arity(bound.function))
                         ELSE IF r.r # "Ok" THEN r
                         ELSE Value(r.st, Instance(instance))
         [] callee.v.t = "Function" ->
              LET function == s1.heap[callee.v.ref]
              IN IF Len(args.v) # arity(function) THEN Arity(arity(function))
                 ELSE DoveCallable_call(s1, function, args.v)
         [] OTHER -> Interrupt_Error(s1, ErrorLocation_Token(expr.paren),
                "Type '" \o TypeName(callee.v) \o "' is not callable.")

\* visit_expr's Expr::Assign
Interpreter_assign(st, expr) ==
    LET name == expr.name
        op == expr.sign
        Compound(token_type, lexeme) ==
            Interpreter_visit("Interpreter_visit_expr", <<st,
                [e |-> "Binary", left |-> [e |-> "Variable", name |-> name],
                 op |-> Token(token_type, lexeme, None, op.line, op.pos),
                 right |-> expr.value]>>)
        val == CASE op.token_type = "EQUAL" -> Interpreter_visit("Interpreter_visit_expr", <<st, expr.value>>)
                 [] op.token_type \in {"PLUS_EQUAL", "PLUS_PLUS"} -> Compound("PLUS", "+")
                 [] op.token_type \in {"MINUS_EQUAL", "MINUS_MINUS"} -> Compound("MINUS", "-")
                 [] op.token_type = "STAR_EQUAL" -> Compound("STAR", "*")
                 [] op.token_type = "SLASH_EQUAL" -> Compound("SLASH", "/")
                 [] OTHER -> Panic(st)
    IN IF val.r # "Ok" THEN val ELSE
       LET s1 == Accessed(val.st, name)
           assigned == IF has_local(s1, name)
                       THEN Environment_assign_at(s1.heap, s1.environment,
                                get_local(s1, name), name.lexeme, val.v)
                       ELSE Environment_assign(s1.heap, Globals, name.lexeme, val.v)
       IN IF assigned.ok THEN Value([s1 EXCEPT !.heap = assigned.heap], val.v)
          ELSE Interrupt_Error(s1, ErrorLocation_Token(name),
                   "Cannot assign value to '" \o name.lexeme
                   \o "', as it is not found in scope.")

\* visit_expr's Expr::IndexGet and Expr::IndexSet, after the operands are
\* evaluated; value is None for IndexGet
Interpreter_index(st, object, index, value) ==
    LET n == unwrap_usize(index)
        items == IF object.t = "Array" THEN st.heap[object.ref].items ELSE object.v
        entries == st.heap[object.ref].entries
        key == DictKeyOf(index)
        found == DictFind(entries, key)
        OutOfRange == Interrupt_Error(st, Unspecified,
                          "Index '" \o ToString(n.v) \o "' out of range.")
        NotInteger == Interrupt_Error(st, Unspecified, "Index must be an integer.")
    IN CASE object.t = "Array" ->
              IF n = None THEN NotInteger
              ELSE IF n.v >= Len(items) THEN OutOfRange
              ELSE IF value = None THEN Value(st, items[n.v + 1])
              ELSE Value([st EXCEPT !.heap[object.ref].items[n.v + 1] = value],
                         items[n.v + 1])
         [] object.t = "Tuple" /\ value = None ->
              IF n = None THEN NotInteger
              ELSE IF n.v >= Len(items) THEN OutOfRange
              ELSE Value(st, items[n.v + 1])
         [] object.t = "Dictionary" ->
              IF key = None
              THEN Interrupt_Error(st, Unspecified, "Index must be an integer/string.")
              ELSE IF value = None
              THEN IF found = 0
                   THEN Interrupt_Error(st, Unspecified,
                            "Key '" \o DictKey_stringify(key) \o "' not found.")
                   ELSE Value(st, entries[found].val)
              ELSE Value([st EXCEPT !.heap[object.ref].entries =
                              DictInsert(entries, key, value)],
                         IF found = 0 THEN Nil ELSE entries[found].val)
         [] OTHER ->
              Interrupt_Error(st, Unspecified,
                  "Cannot " \o (IF value = None THEN "get" ELSE "set")
                  \o " value by index/key from '" \o TypeName(object) \o "'.")

\* visit_expr's Expr::SuperExpr.  `distance - 1` is a usize subtraction: at
\* distance 0 the build with overflow checks panics, the build without wraps
\* around to a frame that is never there.
Interpreter_super(st, expr) ==
    LET token == expr.token
        distance == get_local(st, token)
        maybe_class == Environment_get_at(st.heap, st.environment, distance, token.lexeme)
        method == DoveClass_find_method(st.heap, maybe_class.ref, expr.method.lexeme)
        maybe_instance == IF distance = 0 THEN None
                          ELSE Environment_get_at(st.heap, st.environment, distance - 1,
                                                  "self")
        bound == DoveFunction_bind(st.heap, st.heap[method], maybe_instance.ref)
    IN IF ~has_local(st, token)
       THEN Interrupt_Error(st, ErrorLocation_Token(token),
                "Cannot resolve '" \o token.lexeme \o "' in the scope.")
       ELSE IF maybe_class.t # "Class"
       THEN Interrupt_Error(st, ErrorLocation_Token(token), "Cannot find superclass.")
       ELSE IF method = 0
       THEN Interrupt_Error(st, ErrorLocation_Token(expr.method),
                "Cannot find method '" \o expr.method.lexeme \o "' from class '"
                \o st.heap[maybe_class.ref].name \o "'")
       ELSE IF distance = 0 /\ st.overflow_checks THEN Panic(st)
       ELSE IF maybe_instance.t # "Instance"
       THEN Interrupt_Error(st, ErrorLocation_Line(token.line),
                "Cannot find 'self' in the scope")
       ELSE Value([st EXCEPT !.heap = Alloc(bound.heap, bound.function)],
                  Function(NewRef(bound.heap)))

\* Interpreter::visit_expr (Interpreter::evaluate)
Interpreter_visit_expr(st, expr) ==
    CASE expr.e = "Array" ->
           LET r == Interpreter_evaluate_all(st, expr.items, <<>>)
           IN IF r.r # "Ok" THEN r
              ELSE Value([r.st EXCEPT !.heap = Alloc(@, [k |-> "array", items |-> r.v])],
                         Array(NewRef(r.st.heap)))
      [] expr.e = "Assign" -> Interpreter_assign(st, expr)
      [] expr.e = "Binary" ->
           LET r == Interpreter_evaluate_all(st, <<expr.left, expr.right>>, <<>>)
           IN IF r.r # "Ok" THEN r ELSE Interpreter_binary(r.st, expr.op, r.v[1], r.v[2])
      [] expr.e = "Call" -> Interpreter_call(st, expr)
      [] expr.e = "Dictionary" -> Interpreter_dictionary(st, expr.pairs, <<>>)
      [] expr.e = "Get" ->
           LET r == Interpreter_visit_expr(st, expr.object) IN
           IF r.r # "Ok" THEN r
           ELSE IF r.v.t \notin {"String", "Instance", "Array"} THEN Panic(r.st)
           ELSE LET got == get_property(r.st.heap, r.v, expr.name.lexeme)
                IN IF got.v # None THEN Value([r.st EXCEPT !.heap = got.heap], got.v)
                   ELSE Interrupt_Error(r.st, ErrorLocation_Token(expr.name),
                            "Cannot get property '" \o expr.name.lexeme
                            \o "' of type '" \o TypeName(r.v) \o "'.")
      [] expr.e = "IfExpr" ->
           LET c == Interpreter_visit_expr(st, expr.condition) IN
           IF c.r # "Ok" THEN c ELSE
           LET branch == IF is_truthy(c.v) THEN expr.then_stmt ELSE expr.else_stmt
           IN IF branch.s # "Block" THEN Panic(c.st)
              ELSE Interpreter_execute_implicit_return(c.st, branch.statements,
                       Environment_new(c.st.environment))
      [] expr.e \in {"IndexGet", "IndexSet"} ->
           LET r == Interpreter_evaluate_all(st,
                        IF expr.e = "IndexGet" THEN <<expr.object, expr.index>>
                        ELSE <<expr.object, expr.index, expr.value>>, <<>>)
           IN IF r.r # "Ok" THEN r
              ELSE Interpreter_index(r.st, r.v[1], r.v[2],
                       IF expr.e = "IndexGet" THEN None ELSE r.v[3])
      [] expr.e = "Lambda" ->
           Value([st EXCEPT !.heap = Alloc(@,
                      DoveFunction_new(expr.params, expr.body, st.environment))],
                 Function(NewRef(st.heap)))
      [] expr.e = "Literal" -> Value(st, expr.value)
      [] expr.e = "Set" ->
           LET r == Interpreter_evaluate_all(st, <<expr.object, expr.value>>, <<>>) IN
           IF r.r # "Ok" THEN r
           ELSE IF r.v[1].t \notin {"String", "Instance", "Array"} THEN Panic(r.st)
           ELSE IF r.v[1].t = "Instance"
           THEN Value([r.st EXCEPT !.heap[r.v[1].ref].fields =
                           MapPut(@, expr.name.lexeme, r.v[2])], r.v[2])
           ELSE Interrupt_Error(r.st, ErrorLocation_Token(expr.name),
                    "Cannot get property '" \o expr.name.lexeme
                    \o "' of type '" \o TypeName(r.v[1]) \o "'.")
      [] expr.e = "SelfExpr" ->
           LET instance == lookup_variable(st, expr.token)
           IN IF instance # None THEN Value(Accessed(st, expr.token), instance)
              ELSE Interrupt_Error(Accessed(st, expr.token), ErrorLocation_Token(expr.token),
                       "Cannot find '" \o expr.token.lexeme \o "' in the scope.")
      [] expr.e = "SuperExpr" -> Interpreter_super(st, expr)
      [] expr.e = "Tuple" ->
           LET r == Interpreter_evaluate_all(st, expr.items, <<>>)
           IN IF r.r # "Ok" THEN r ELSE Value(r.st, Tuple(r.v))
      [] expr.e = "Unary" ->
           LET r == unwrap(Interpreter_visit_expr(st, expr.right))
               operator == expr.op
           IN IF r.r # "Ok" THEN r
              ELSE IF operator.token_type \in {"BANG", "NOT"}
              THEN Value(r.st, Boolean(~is_truthy(r.v)))
              ELSE IF operator.token_type = "MINUS"
              THEN IF r.v.t = "Number" THEN Value(r.st, Number(-r.v.n, r.v.d))
                   ELSE Interrupt_Error(r.st, ErrorLocation_Token(operator),
                            "Operand of '" \o operator.lexeme \o "' must be a number.")
              ELSE Interrupt_Error(r.st, ErrorLocation_Token(operator),
                       "Unsupported unary operator " \o operator.lexeme \o ".")
      [] expr.e = "Variable" ->
           LET value == lookup_variable(st, expr.name)
           IN IF value # None THEN Value(Accessed(st, expr.name), value)
              ELSE Interrupt_Error(Accessed(st, expr.name), ErrorLocation_Token(expr.name),
                       "Variable '" \o expr.name.lexeme \o "' not found in scope.")

\* what a loop does with the result of one run of its body: it goes on after Ok
\* and Continue, ends with Ok(()) after Break, and returns anything else
LoopNext(r) == r.r \in {"Ok", "Continue"}

LoopResult(r) == IF r.r = "Break" THEN Value(r.st, Nil) ELSE r

\* a `for` over an Array that iterates over the elements the array has when the
\* loop begins
for_array_snapshot(st, stmt, arr, index) ==
    Interpreter_for_tuple(st, stmt, st.heap[arr].items, index)

\* visit_stmt's Stmt::For over an Array: the element is read from the array cell
\* at every step
Interpreter_for_array(st, stmt, arr, index) ==
    IF index >= Len(st.heap[arr].items) THEN Value(st, Nil)
    ELSE LET sub_env == [k |-> "env", enclosing |-> st.environment,
                         values |-> MapPut(EmptyMap, stmt.variable.lexeme,
                                           st.heap[arr].items[index + 1])]
             r == Interpreter_execute_block(st, stmt.body.statements, sub_env)
         IN IF LoopNext(r) THEN Interpreter_for_array(r.st, stmt, arr, index + 1)
            ELSE LoopResult(r)

\* visit_stmt's Stmt::For over a Tuple: the elements are those of the evaluated
\* tuple
Interpreter_for_tuple(st, stmt, tup, index) ==
    IF index >= Len(tup) THEN Value(st, Nil)
    ELSE LET sub_env == [k |-> "env", enclosing |-> st.environment,
                         values |-> MapPut(EmptyMap, stmt.variable.lexeme, tup[index + 1])]
             r == Interpreter_execute_block(st, stmt.body.statements, sub_env)
         IN IF LoopNext(r) THEN Interpreter_for_tuple(r.st, stmt, tup, index + 1)
            ELSE LoopResult(r)

\* visit_stmt's Stmt::While
Interpreter_while(st, stmt) ==
    LET c == unwrap(Interpreter_visit("Interpreter_visit_expr", <<st, stmt.condition>>)) IN
    IF c.r # "Ok" THEN c
    ELSE IF ~is_truthy(c.v) THEN Value(c.st, Nil)
    ELSE LET r == Interpreter_visit("Interpreter_visit_stmt", <<c.st, stmt.body>>)
         IN IF LoopNext(r) THEN Interpreter_while(r.st, stmt) ELSE LoopResult(r)

\* visit_stmt's Stmt::Class: the class cell, after one DoveFunction per method
Interpreter_class(st, stmt, superclass) ==
    LET Methods[i \in 0..Len(stmt.methods)] ==
            IF i = 0 THEN [heap |-> st.heap, map |-> EmptyMap]
            ELSE LET h == Methods[i - 1].heap
                     method == stmt.methods[i]
                     h1 == IF superclass # 0
                           THEN Alloc(h, [k |-> "env", enclosing |-> st.environment,
                                          values |-> MapPut(EmptyMap, "super",
                                                            Class(superclass))])
                           ELSE h
                     closure == IF superclass # 0 THEN NewRef(h) ELSE st.environment
                 IN [heap |-> Alloc(h1, DoveFunction_new(method.params, method.body,
                                                         closure)),
                     map |-> MapPut(Methods[i - 1].map, method.name.lexeme, NewRef(h1))]
        done == Methods[Len(stmt.methods)]
        h2 == Alloc(done.heap, [k |-> "class", name |-> stmt.name.lexeme,
                                superclass |-> superclass, methods |-> done.map])
    IN Value([st EXCEPT !.heap = Environment_define(h2, st.environment,
                                     stmt.name.lexeme, Class(NewRef(done.heap)))],
             Nil)

\* Interpreter::visit_stmt (Interpreter::execute)
Interpreter_visit_stmt(st, stmt) ==
    CASE stmt.s = "Block" ->
           Interpreter_execute_block(st, stmt.statements, Environment_new(st.environment))
      [] stmt.s = "Break" -> [st |-> st, r |-> "Break", v |-> Nil]
      [] stmt.s = "Continue" -> [st |-> st, r |-> "Continue", v |-> Nil]
      [] stmt.s = "Class" ->
           IF stmt.superclass = None THEN Interpreter_class(st, stmt, 0)
           ELSE LET class == lookup_variable(st, stmt.superclass)
                    s1 == Accessed(st, stmt.superclass)
                IN IF class.t = "Class" THEN Interpreter_class(s1, stmt, class.ref)
                   ELSE Interrupt_Error(s1, ErrorLocation_Token(stmt.superclass),
                            "Cannot find the class named '" \o stmt.superclass.lexeme
                            \o "'.")
      [] stmt.s = "Expression" ->
           LET r == Interpreter_visit("Interpreter_visit_expr", <<st, stmt.expr>>)
           IN IF r.r # "Ok" THEN r ELSE Value(r.st, Nil)
      [] stmt.s = "For" ->
           LET range_vals == Interpreter_visit("Interpreter_visit_expr", <<st, stmt.expr>>) IN
           IF range_vals.r # "Ok" THEN range_vals
           ELSE IF stmt.body.s # "Block"
           THEN Interrupt_Error(range_vals.st, ErrorLocation_Token(stmt.variable),
                    "Expected block statement in a 'for' loop.")
           ELSE IF range_vals.v.t = "Array"
           THEN Interpreter_for_array(range_vals.st, stmt, range_vals.v.ref, 0)
           ELSE IF range_vals.v.t = "Tuple"
           THEN Interpreter_for_tuple(range_vals.st, stmt, range_vals.v.v, 0)
           ELSE Interrupt_Error(range_vals.st, ErrorLocation_Token(stmt.variable),
                    "Cannot iterate over type '" \o TypeName(range_vals.v) \o "'")
      [] stmt.s = "Function" ->
           LET h1 == Alloc(st.heap,
                           DoveFunction_new(stmt.params, stmt.body, st.environment))
           IN Value([st EXCEPT !.heap = Environment_define(h1, st.environment,
                                            stmt.name.lexeme, Function(NewRef(st.heap)))],
                    Nil)
      [] stmt.s = "Print" ->
           LET r == Interpreter_visit("Interpreter_visit_expr", <<st, stmt.expr>>)
               text == stringify(r.st.heap, r.st.hash_order, r.v)
           IN IF r.r # "Ok" THEN r
              ELSE IF text.panic THEN Panic(r.st)
              ELSE Value([r.st EXCEPT !.sink = Append(@, Printed(text.s))], Nil)
      [] stmt.s = "Return" ->
           LET r == IF stmt.expr # None THEN Interpreter_visit("Interpreter_visit_expr", <<st, stmt.expr>>)
                    ELSE Value(st, Nil)
           IN IF r.r # "Ok" THEN r ELSE [r EXCEPT !.r = "Return"]
      [] stmt.s = "Variable" ->
           LET r == IF stmt.initializer # None
                    THEN Interpreter_visit("Interpreter_visit_expr", <<st, stmt.initializer>>)
                    ELSE Value(st, Nil)
           IN IF r.r # "Ok" THEN r
              ELSE Value([r.st EXCEPT !.heap = Environment_define(@, r.st.environment,
                                                  stmt.name.lexeme, r.v)], Nil)
      [] stmt.s = "While" -> Interpreter_while(st, stmt)

\* One evaluation method of the interpreter, selected by name.
Interpreter_visit(method, a) ==
    CASE method = "Interpreter_visit_expr" -> Interpreter_visit_expr(a[1], a[2])
      [] method = "Interpreter_visit_stmt" -> Interpreter_visit_stmt(a[1], a[2])

\* ------------------------------------------------------------------------
\* The inputs: scripts given to main, and lines typed at the prompt
\* ------------------------------------------------------------------------

\* how many lines are typed at the prompt
MaxInputs == 3

\* the largest absolute value of the operands the ranges are computed over
MaxOperand == 3

\* how far up the chain of frames an assignment is tried
MaxDistance == 3

\* how many mutations a script applies to an aggregate that has two holders
MaxMutations == 2

\* what a script is expected to print, as the sink it leaves
Prints(texts) == [i \in 1..Len(texts) |-> Printed(texts[i])]

\* the recursive function of the documentation, written on one line
FibOneLine ==
    "fun fib(n) { if n < 2 { n } else { fib(n-1) + fib(n-2) } }\nprint fib(10)"

\* a name that is not defined, read in each position of an expression
ErrorPrograms ==
    {"print x\nprint 1",
     "print 2\nprint [1][5]\nprint 1",
     "for i in [1, 2] {\n print i\n print i + nil\n}\nprint 1",
     "print -x\nprint 1",
     "while x {\n}\nprint 1",
     "let d = {\"a\": x}\nprint 1",
     "let d = {x: 1}\nprint 1"}

\* loops left by break, continue and return, with what they print
LoopPrograms ==
    {[source |-> "let i = 0\nwhile true {\n i = i + 1\n if i > 2 {\n break\n }\n}\nprint i",
      prints |-> <<"3">>],
     [source |-> "let i = 0\nwhile i < 3 {\n i = i + 1\n if i == 2 {\n continue\n }\n print i\n}",
      prints |-> <<"1", "3">>],
     [source |-> "for i in [1, 2, 3] {\n if i == 2 {\n continue\n }\n print i\n}",
      prints |-> <<"1", "3">>],
     [source |-> "for i in (1, 2, 3) {\n if i == 2 {\n {\n break\n }\n }\n print i\n}",
      prints |-> <<"1">>],
     [source |-> "for i in [1, 2] {\n for j in [3, 4] {\n break\n }\n print i\n}",
      prints |-> <<"1", "2">>],
     [source |-> "fun f(n) {\n for i in [1, 2] {\n if i == n {\n return i\n }\n }\n}\nfor k in [1, 2] {\n print f(k)\n}",
      prints |-> <<"1", "2">>],
     [source |-> "fun f() {\n while (if true { return 1 } else { false }) {\n }\n}\nprint f()",
      prints |-> <<"1">>]}

\* a function of one parameter with the given body, called with 3
FunctionScript(body) == "fun f(n) {\n" \o body \o "}\nprint f(3)"

\* bodies of functions, with what the call's value prints as
FunctionBodies ==
    {[body |-> " return 7\n", prints |-> <<"7">>],
     [body |-> " return\n", prints |-> <<"nil">>],
     [body |-> " print 0\n return n\n print 1\n", prints |-> <<"0", "3">>],
     [body |-> " let m = n + 1\n m\n", prints |-> <<"4">>],
     [body |-> " let m = n + 1\n", prints |-> <<"nil">>],
     [body |-> " n\n print 0\n", prints |-> <<"0", "nil">>],
     [body |-> "", prints |-> <<"nil">>],
     [body |-> " if n > 1 {\n return 1\n }\n 2\n", prints |-> <<"1">>],
     [body |-> " if n > 5 {\n return 1\n }\n 2\n", prints |-> <<"2">>],
     [body |-> " if n > 1 {\n let k = n\n k + 1\n } else {\n 0\n }\n", prints |-> <<"4">>],
     [body |-> " if n > 5 {\n 1\n } else {\n print 0\n 2\n }\n", prints |-> <<"0", "2">>],
     [body |-> " let v = if n > 1 {\n let k = n\n }\n v\n", prints |-> <<"nil">>],
     [body |-> " let v = if n > 5 {\n 1\n }\n v\n", prints |-> <<"nil">>],
     [body |-> " let v = if n > 1 {\n}\n v\n", prints |-> <<"nil">>],
     [body |-> " while true {\n return 5\n }\n", prints |-> <<"5">>],
     [body |-> " n\n while false {\n }\n", prints |-> <<"nil">>]}

\* `if` expressions with an `else if` alternative, with what their value prints as
ElseIfPrograms ==
    {[source |-> "print if true { 1 } else if true { 2 } else { 3 }", prints |-> <<"1">>],
     [source |-> "print if false { 1 } else if true { 2 } else { 3 }", prints |-> <<"2">>],
     [source |-> "print if false { 1 } else if false { 2 } else { 3 }", prints |-> <<"3">>],
     [source |-> "print if false { 1 } else if false { 2 }", prints |-> <<"nil">>],
     [source |-> "let x = 5\nif x < 3 {\n print 1\n} else if x < 9 {\n print 2\n}",
      prints |-> <<"2">>]}

\* scripts that leave values of every variant in globals and compare some
EqualityPrograms ==
    {"fun f() {\n}\nprint 1 == f\nprint f == 1",
     "class P {\n}\nlet p = P()\nprint nil != p\nprint p != nil",
     "class P {\n}\nlet s = \"a\"\nprint s == P\nprint P == s",
     "let a = [1, (2, 3)]\nlet b = [1, (2, 3)]\nlet c = [1, (2, 4)]\nlet n = 1\nprint a == b",
     "let d = {\"k\": [1]}\nlet e = {\"k\": [1]}\nlet g = {\"k\": [1], \"j\": 2}\nlet t = true"}

\* every sequence of at most n of the given lines
RECURSIVE LineSequences(_, _)
LineSequences(lines, n) ==
    IF n = 0 THEN {""}
    ELSE {""} \cup {s \o line : s \in LineSequences(lines, n - 1), line \in lines}

\* how a second holder b is given the aggregate a holds: by assignment, or as an
\* argument that the function returns
Sharings == {"let b = a\n", "fun id(x) {\n return x\n}\nlet b = id(a)\n"}

\* scripts that share an aggregate and then mutate it through either holder;
\* those on arrays end with a concatenation whose result they mutate
AliasScripts ==
    {"let a = [1, 2]\n" \o sharing \o mutations \o "let c = a + b\nc.push(7)\nc[0] = 8"
        : sharing \in Sharings,
          mutations \in LineSequences({"a.push(3)\n", "b.pop()\n", "a.remove(0)\n", "b[0] = 9\n"},
                                  MaxMutations)}
    \cup {"let a = {\"k\": 1}\n" \o sharing \o mutations
        : sharing \in Sharings,
          mutations \in LineSequences({"b[\"k\"] = 2\n", "a[\"j\"] = 3\n"}, MaxMutations)}
    \cup {"class P {\n}\nlet a = P()\n" \o sharing \o mutations
        : sharing \in Sharings,
          mutations \in LineSequences({"b.x = 5\n", "a.y = 6\n"}, MaxMutations)}

\* scripts that use a Number without fraction as a dictionary key, in a literal,
\* a read and a write, with what they print
IntegerKeyPrograms ==
    {[source |-> "let d = {1: \"a\"}\nprint d[1]", prints |-> <<"a">>],
     [source |-> "let d = {\"k\": 0}\nd[2] = 5\nprint d[2]", prints |-> <<"5">>],
     [source |-> "let d = {2: 1}\nd[1 + 1] = 7\nprint d[4 / 2]", prints |-> <<"7">>]}

\* scripts that use a Number with a fraction as the key, each in its last statement
FractionalKeyPrograms ==
    {"let d = {\"k\": 0}\nd[1.5] = 5",
     "let d = {\"k\": 0}\nprint d[1.5]",
     "let d = {\"k\": 0}\nlet e = {1.5: 0}"}

\* scripts that call a class and keep the value of the call in p: what they print,
\* how many runtime errors they report and the fields p has at the end
ClassCallPrograms ==
    {[source |-> "class P {\n}\nlet p = P()", prints |-> <<>>, errors |-> 0, fields |-> {}],
     [source |-> "class P {\n fun init(a) {\n self.x = a\n }\n}\nlet p = P(3)\nprint p.x",
      prints |-> <<"3">>, errors |-> 0, fields |-> {"x"}],
     [source |-> "class A {\n fun init() {\n self.x = 1\n }\n}\nclass B from A {\n}\nlet p = B()",
      prints |-> <<>>, errors |-> 0, fields |-> {"x"}],
     [source |-> "class A {\n fun init() {\n self.x = 1\n }\n}\nclass B from A {\n fun init() {\n self.y = 2\n }\n}\nlet p = B()",
      prints |-> <<>>, errors |-> 0, fields |-> {"y"}],
     [source |-> "class P {\n fun init() {\n return\n }\n}\nlet p = P()",
      prints |-> <<>>, errors |-> 0, fields |-> {}],
     [source |-> "class P {\n fun init() {\n 5\n }\n}\nlet p = P()",
      prints |-> <<>>, errors |-> 0, fields |-> {}],
     [source |-> "class P {\n fun init(a) {\n print 0\n }\n}\nlet p = P()",
      prints |-> <<>>, errors |-> 1, fields |-> {}],
     [source |-> "class P {\n fun init() {\n print 0\n }\n}\nlet p = P(1)",
      prints |-> <<>>, errors |-> 1, fields |-> {}]}

\* scripts that read properties of the instance p: what they print, how many
\* runtime errors they report, the fields p has at the end, and the globals that
\* hold what was read from p.m
PropertyPrograms ==
    {[source |-> "class P {\n fun m() {\n self.x\n }\n}\nlet p = P()\np.x = 4\nlet f = p.m\nlet g = p.m\nprint f()",
      prints |-> <<"4">>, errors |-> 0, fields |-> {"x", "m"}, holders |-> {"f", "g"}],
     [source |-> "class P {\n fun m() {\n 1\n }\n}\nlet p = P()\np.m = 7\nlet f = p.m\nprint f",
      prints |-> <<"7">>, errors |-> 0, fields |-> {"m"}, holders |-> {"f"}],
     [source |-> "class A {\n fun m() {\n 1\n }\n}\nclass B from A {\n}\nlet p = B()\nlet f = p.m\nprint p.m()",
      prints |-> <<"1">>, errors |-> 0, fields |-> {"m"}, holders |-> {"f"}],
     [source |-> "class A {\n fun m() {\n 1\n }\n}\nclass B from A {\n fun m() {\n 2\n }\n}\nlet p = B()\nprint p.m()",
      prints |-> <<"2">>, errors |-> 0, fields |-> {"m"}, holders |-> {}],
     [source |-> "class P {\n fun m() {\n 1\n }\n}\nlet p = P()\np.x = 4\nprint p.z",
      prints |-> <<>>, errors |-> 1, fields |-> {"x"}, holders |-> {}]}

\* classes A, B from A and C from B, where C overrides m and inherits from B the
\* method n, whose body is given; n is called on an instance of C
SuperScript(body) ==
    "class A {\n fun m() {\n print self.x\n }\n}\nclass B from A {\n fun n() {"
    \o body \o "}\n}\nclass C from B {\n fun m() {\n print 2\n }\n}\n"
    \o "let c = C()\nc.x = 1\nc.n()"

\* bodies of n that call super.m, with what the script prints: A's m prints the
\* field x of its self
SuperBodies ==
    {[body |-> "\n super.m()\n", prints |-> <<"1">>],
     [body |-> "\n if true {\n super.m()\n }\n", prints |-> <<"1">>],
     [body |-> "\n let f = super.m\n f()\n self.m()\n", prints |-> <<"1", "2">>],
     [body |-> " if super.m() { super.m() } ", prints |-> <<"1">>]}

\* what the resolver reports against a token
Resolved(line, lexeme, message) ==
    ErrorHandler_report(line, " at '" \o lexeme \o "'", message)

\* scripts with the errors the resolver is to report for them, in order
ResolverPrograms ==
    {[source |-> "return\n", errors |->
        <<Resolved(1, "return", "Cannot return from top-level code.")>>],
     [source |-> "while false {\n return\n}", errors |->
        <<Resolved(2, "return", "Cannot return from top-level code.")>>],
     [source |-> "class P {\n fun init() {\n return 1\n }\n}", errors |->
        <<Resolved(3, "return", "Cannot return a value from an initializer.")>>],
     [source |-> "class P {\n fun init() {\n return\n }\n fun m() {\n return 1\n }\n}",
      errors |-> <<>>],
     [source |-> "break", errors |->
        <<Resolved(1, "break", "Break statements can only be used inside loops.")>>],
     [source |-> "if true {\n continue\n}", errors |->
        <<Resolved(2, "continue", "Continue statements can only be used inside loops.")>>],
     [source |-> "while false {\n fun f() {\n break\n }\n break\n}", errors |->
        <<Resolved(3, "break", "Break statements can only be used inside loops.")>>],
     [source |-> "for i in [] {\n let f = lambda x -> {\n continue\n }\n continue\n}",
      errors |->
        <<Resolved(3, "continue", "Continue statements can only be used inside loops.")>>],
     [source |-> "while false {\n continue\n}\nbreak", errors |->
        <<Resolved(4, "break", "Break statements can only be used inside loops.")>>],
     [source |-> "fun f() {\n while true {\n if true {\n break\n }\n continue\n }\n return 1\n}",
      errors |-> <<>>],
     [source |-> "fun f() {\n self\n}", errors |->
        <<Resolved(2, "self", "Cannot use 'self' outside of a class.")>>],
     [source |-> "fun f() {\n super.m()\n}", errors |->
        <<Resolved(2, "super", "Cannot use 'super' outside of a class.")>>],
     [source |-> "class P {\n fun m() {\n super.m()\n }\n}", errors |->
        <<Resolved(3, "super", "Cannot use 'super' inside a class with no superclass.")>>],
     [source |-> "class P from P {\n}", errors |->
        <<Resolved(1, "P", "A class cannot inherit from itself.")>>],
     [source |-> "class A {\n fun m() {\n self\n }\n}\nclass B from A {\n fun m() {\n return super.m\n }\n}",
      errors |-> <<>>]}

\* scripts that assign to names that exist and to names that do not, with what
\* they print, how many runtime errors they report and the names they assign to
\* without ever declaring them
AssignPrograms ==
    {[source |-> "x = 1\nprint 2", prints |-> <<"2">>, errors |-> 1, unbound |-> {"x"}],
     [source |-> "x += 1\nprint 2", prints |-> <<"2">>, errors |-> 1, unbound |-> {"x"}],
     [source |-> "let a = 1\nfun f() {\n a = 2\n}\nf()\nprint a",
      prints |-> <<"2">>, errors |-> 0, unbound |-> {}],
     [source |-> "fun f(n) {\n n = 5\n m = 6\n}\nf(1)\nprint 1",
      prints |-> <<"1">>, errors |-> 1, unbound |-> {"m"}],
     [source |-> "let a = 1\n{\n let a = 5\n a = 6\n b = 7\n}\nprint a",
      prints |-> <<"1">>, errors |-> 1, unbound |-> {"b"}],
     [source |-> "for i in [1, 2] {\n i = 9\n j = i\n}\nprint 1",
      prints |-> <<"1">>, errors |-> 1, unbound |-> {"j"}]}

\* a function that prints 1 and yields the given value, called as the right
\* operand of the given expression
LogicScript(yield, expression) ==
    "fun f() {\n print 1\n " \o yield \o "\n}\nprint " \o expression

\* `and` and `or` over operands of each truthiness, with what the script prints
LogicPrograms ==
    {[source |-> LogicScript("true", "false and f()"), prints |-> <<"false">>],
     [source |-> LogicScript("true", "nil and f()"), prints |-> <<"false">>],
     [source |-> LogicScript("true", "true or f()"), prints |-> <<"true">>],
     [source |-> LogicScript("nil", "0 or f()"), prints |-> <<"true">>],
     [source |-> LogicScript("0", "true and f()"), prints |-> <<"1", "true">>],
     [source |-> LogicScript("nil", "\"\" and f()"), prints |-> <<"1", "false">>],
     [source |-> LogicScript("\"\"", "false or f()"), prints |-> <<"1", "true">>],
     [source |-> LogicScript("false", "nil or f()"), prints |-> <<"1", "false">>]}

\* scripts that print ranges, with what they print
RangePrograms ==
    {[source |-> "print 1..4", prints |-> <<"(1, 2, 3)">>],
     [source |-> "print 4...1", prints |-> <<"(4, 3, 2, 1)">>],
     [source |-> "print 2..2", prints |-> <<"()">>],
     [source |-> "print (0 - 1)...1", prints |-> <<"(-1, 0, 1)">>],
     [source |-> "print 2147483646...2147483647", prints |-> <<"(2147483646, 2147483647)">>]}

\* the inclusive range whose length is one more than the largest i32
LongRange == "print 0...2147483647"

\* a script whose block is never closed
UnclosedScript == "if true {\n print 1\n"

\* a line whose braces are balanced, with a declaration without a name in the block
MalformedLine == "if true { let = 1 }\n"

\* scripts with and without imports at their head; two have a string literal as
\* the first token after the head
ImportPrograms ==
    {"import \"a\"\nimport \"b\"\nprint 1",
     "\nimport \"a\"\n\nprint 1",
     "print 1\nimport \"a\"",
     "\n\nprint \"a\"",
     "\"a\"\nprint 1",
     "import \"a\"\n\"b\"\nprint 1"}

\* the files an import can name, by path: two without imports, one that imports
\* another, one that imports itself, two that import each other, and one that
\* has, on its line 2, a reference to a parameter x from a block
Files ==
    [a |-> "print \"a\"", b |-> "print \"b\"",
     d |-> "let x = 5\nfun f(x) { if true { x } }",
     c |-> "import \"a\"\nprint \"c\"",
     s |-> "import \"s\"\nprint \"s\"",
     m |-> "import \"n\"\nprint \"m\"",
     n |-> "import \"m\"\nprint \"n\""]

\* importing scripts, with what they print (a string is printed with its quotes)
\* and the code the process exits with
ImportingPrograms ==
    {[source |-> "import \"c\"\nimport \"b\"\nprint \"main\"",
      prints |-> <<"\"a\"", "\"c\"", "\"b\"", "\"main\"">>, code |-> 0],
     [source |-> "import \"a\"\nimport \"c\"\nprint \"main\"",
      prints |-> <<"\"a\"">>, code |-> 92],
     [source |-> "import \"b\"\nimport \"b\"\nprint \"main\"",
      prints |-> <<"\"b\"">>, code |-> 92],
     [source |-> "import \"b\"\nimport \"x\"\nprint \"main\"",
      prints |-> <<"\"b\"">>, code |-> 53],
     [source |-> Files["s"], prints |-> <<>>, code |-> 92],
     [source |-> Files["m"], prints |-> <<>>, code |-> 92]}

\* scripts that begin with `{`: dictionary literals with the number of their
\* pairs, and blocks (pairs is -1), two of them with a declaration without a name
\* in the block of an if expression and of a lambda, two of them unclosed
BracePrograms ==
    {[source |-> "{1: 2}\n", pairs |-> 1],
     [source |-> "{\n 1: 2,\n 3: 4\n}\n", pairs |-> 2],
     [source |-> "{}\n", pairs |-> 0],
     [source |-> "{\n print 1\n}\n", pairs |-> -1],
     [source |-> "{\n let a = (1, 2)\n print a\n}\n", pairs |-> -1],
     [source |-> "{ 1: }\n", pairs |-> -1],
     [source |-> "{\n print 1\n", pairs |-> -1],
     [source |-> "{\n if true {\n let = 1\n } else {\n 2\n }\n}\n", pairs |-> -1],
     [source |-> "{\n lambda x -> {\n let = 1\n }\n}\n", pairs |-> -1],
     [source |-> "{\n if true {\n let = 1\n", pairs |-> -1]}

\* scripts with one statement that fails to parse, with the lines on which the
\* well-formed top-level statements outside the skipped region begin and the line
\* of the statement that fails; two scripts have an unmatched closing delimiter,
\* one has its malformed declaration in a block that closes on the same line
RecoveryPrograms ==
    {[source |-> "print 1\nlet = 2\nprint 3\n", kept |-> <<1, 3>>, failing |-> 2],
     [source |-> "print 1\nf(1 2)\nprint 3\n", kept |-> <<1, 3>>, failing |-> 2],
     [source |-> "print 1\nprint (2 +\nprint 3\n", kept |-> <<1>>, failing |-> 2],
     [source |-> "if true {\n let = 1\n print 2\n}\nprint 3\n", kept |-> <<1, 5>>,
      failing |-> 2],
     [source |-> "print 1)\nprint 2\n", kept |-> <<2>>, failing |-> 1],
     [source |-> "print 1\n]\nprint 3\n", kept |-> <<1, 3>>, failing |-> 2],
     [source |-> "if true { let = 1 }\nprint 3\n", kept |-> <<3>>, failing |-> 1]}

\* scripts for the scanner: operators of one, two and three characters next to
\* each other, numbers with and without fractional part, keywords, a string over
\* two lines, comments, and three that end in a scanner error
ScannerPrograms ==
    {"a+++b --->c\n", "1.5.x 1..2 1...3 7.\n", "a<=b>=c==d!=e<f>g!h\n",
     "a/=b/>c/<d/e*=f-=g+=h%i\n", "x /* c\n d */ y // z\nw\n",
     "print \"s\nt\" and nil\n", "f(a)[1]:{2,3}\n", "let a = 1 @ 2\n",
     "print \"open\n", "x /* open\n"}

\* the longest of the short texts given to the scanner
MaxText == 3

\* the characters of the short texts
Alphabet == {"a", "1", ".", "+", "-", "=", "/", "*", "\"", "\n", " ", ">"}

\* the text made of the given characters
RECURSIVE Text(_)
Text(chars) == IF chars = <<>> THEN "" ELSE Head(chars) \o Text(Tail(chars))

\* every text of at most MaxText characters of the alphabet
Texts == {Text(chars) : chars \in UNION {[1..n -> Alphabet] : n \in 0..MaxText}}

\* scripts that import the file d and then use the global x it defines, on their
\* line 2 or elsewhere, with what they print
LaterBatchPrograms ==
    {[source |-> "import \"d\"\nprint x", prints |-> <<"5">>],
     [source |-> "import \"d\"\n\nprint x", prints |-> <<"5">>],
     [source |-> "import \"d\"\nx = 7\nprint x", prints |-> <<"7">>],
     [source |-> "import \"d\"\n\nx = 7\nprint x", prints |-> <<"7">>]}

\* scripts of two statements, the first with a construct in which newlines are
\* ignored (a group, a tuple, the empty tuple, an array, a dictionary, an index,
\* an argument list, a parameter list), most of them over two lines, with the
\* line the second statement begins on
NewlinePrograms ==
    {[source |-> "let a = (1 +\n 2)\nprint a\n", second |-> 3],
     [source |-> "let a = (1,\n 2)\nprint a\n", second |-> 3],
     [source |-> "let a = [1,\n 2]\nprint a\n", second |-> 3],
     [source |-> "let a = {1:\n 2}\nprint a\n", second |-> 3],
     [source |-> "let a = len[\n 0]\nprint a\n", second |-> 3],
     [source |-> "print len(\n 1)\nprint 2\n", second |-> 3],
     [source |-> "fun f(a,\n b) {\n}\nprint 2\n", second |-> 4],
     [source |-> "let a = []\nprint a\n", second |-> 2],
     [source |-> "let a = ()\nprint a\n", second |-> 2]}

\* one-statement scripts with an argument list, an array, a tuple or a
\* dictionary, whose last element is well formed or lacks an operand
ElementPrograms ==
    {[source |-> "print len(1 + 2)\n", malformed |-> FALSE],
     [source |-> "print [1, 2 + 3]\n", malformed |-> FALSE],
     [source |-> "print (1, 2 * 3)\n", malformed |-> FALSE],
     [source |-> "print {1: 2, 3: 4}\n", malformed |-> FALSE],
     [source |-> "print len(1 + )\n", malformed |-> TRUE],
     [source |-> "print [1, 2 + ]\n", malformed |-> TRUE],
     [source |-> "print (1, 2 * )\n", malformed |-> TRUE],
     [source |-> "print {1: 2, 3 + }\n", malformed |-> TRUE],
     [source |-> "print {1: 2 + }\n", malformed |-> TRUE]}

\* scripts with delimiters: matched, left open, and closed without an opening
DelimiterPrograms ==
    {"print (1 + [2, 3][0])\n", "print {1: (2, 3)}\nprint [4]\n", "print (1\n",
     "print [(1, 2\nprint 3\n", "print 1 2 [\n", "print [1]]\n", "}\n", "print )\n"}

\* a compound assignment to a target holding `old`, and the target printed after it
CompoundScript(target, form) ==
    CASE target = "x" -> "let x = 6\nx" \o form \o "\nprint x\n"
      [] target = "a[i]" -> "let a = [6]\na[0]" \o form \o "\nprint a[0]\n"
      [] target = "obj.f" ->
           "class P {\n}\nlet o = P()\no.f = 6\no.f" \o form \o "\nprint o.f\n"

\* the assignable targets
Targets == {"x", "a[i]", "obj.f"}

\* the assignment forms applied to a target that holds 6, with what the target
\* prints as afterwards
CompoundForms ==
    {[form |-> " = 2", prints |-> "2"], [form |-> " += 2", prints |-> "8"],
     [form |-> " -= 2", prints |-> "4"], [form |-> " *= 2", prints |-> "12"],
     [form |-> " /= 2", prints |-> "3"], [form |-> "++", prints |-> "7"],
     [form |-> "--", prints |-> "5"]}

\* `for` loops whose body changes what is iterated, with what they print
ForPrograms ==
    {[source |-> "let a = [1, 2]\nfor x in a {\n print x\n if x == 1 {\n a.push(3)\n }\n}",
      prints |-> <<"1", "2", "3">>],
     [source |-> "let a = [1, 2, 3]\nfor x in a {\n print x\n if x == 1 {\n a.remove(0)\n }\n}",
      prints |-> <<"1", "3">>],
     [source |-> "let a = [1, 2, 3]\nfor x in a {\n print x\n a.pop()\n}",
      prints |-> <<"1", "2">>],
     [source |-> "let a = [1, 2]\nfor x in a {\n a[0] = 7\n a[1] = 9\n print x\n}",
      prints |-> <<"1", "9">>],
     [source |-> "let a = [1, 2]\nfor x in a {\n a = [5]\n print x\n}\nprint a",
      prints |-> <<"1", "2", "[5]">>],
     [source |-> "let a = [1]\nfor x in a {\n print x\n a.push(x + 1)\n if x == 3 {\n break\n }\n}\nprint a.len()",
      prints |-> <<"1", "2", "3", "4">>],
     [source |-> "for x in [1, 2] {\n print x\n x = 9\n let y = x\n print y\n}",
      prints |-> <<"1", "9", "2", "9">>],
     [source |-> "let fs = []\nfor x in [1, 2] {\n fun g() {\n return x\n }\n fs.push(g)\n}\nprint fs[0]()\nprint fs[1]()",
      prints |-> <<"1", "2">>],
     [source |-> "let a = []\nfor x in a {\n print x\n}\nprint 0",
      prints |-> <<"0">>],
     [source |-> "let t = (1, 2)\nfor x in t {\n t = (7, 8, 9)\n print x\n}\nprint t",
      prints |-> <<"1", "2", "(7, 8, 9)">>],
     [source |-> "let a = [1]\nlet t = (a, 2)\nfor x in t {\n a.push(3)\n print x\n}",
      prints |-> <<"[1, 3]", "2">>]}

\* the scripts: the content run_file reads
Programs ==
    {FibOneLine} \cup ErrorPrograms \cup {p.source : p \in LoopPrograms}
    \cup {FunctionScript(f.body) : f \in FunctionBodies}
    \cup {p.source : p \in ElseIfPrograms} \cup EqualityPrograms \cup AliasScripts
    \cup {p.source : p \in IntegerKeyPrograms} \cup FractionalKeyPrograms
    \cup {p.source : p \in ClassCallPrograms} \cup {p.source : p \in PropertyPrograms}
    \cup {SuperScript(b.body) : b \in SuperBodies} \cup {p.source : p \in ResolverPrograms}
    \cup {p.source : p \in AssignPrograms} \cup {p.source : p \in LogicPrograms}
    \cup {p.source : p \in RangePrograms} \cup {LongRange, UnclosedScript}
    \cup ImportPrograms \cup {p.source : p \in ImportingPrograms}
    \cup {p.source : p \in BracePrograms} \cup {p.source : p \in RecoveryPrograms}
    \cup ScannerPrograms \cup {p.source : p \in LaterBatchPrograms}
    \cup {p.source : p \in NewlinePrograms} \cup {p.source : p \in ElementPrograms}
    \cup DelimiterPrograms \cup {p.source : p \in ForPrograms}
    \cup {CompoundScript(target, f.form) : target \in Targets, f \in CompoundForms}

\* the lines typed at the prompt, each as read_line returns it
Lines ==
    {"let d = {1: 2 3}\n", "print 1\n", "fun f() {\n", " 1\n", "}\n", "print f()\n",
     MalformedLine, "fun g(x) { if true { x } }\n", "let x = 5\n", "print x\n"}

\* ------------------------------------------------------------------------
\* The driver (dove-cli/src/dove.rs, dove-core/src/dove.rs)
\* ------------------------------------------------------------------------

vars == <<pc, mode, hash_order, overflow_checks, heap, environment, locals,
          had_runtime_error, sink, statements, next_stmt, is_repl_unfinished,
          code_buffer, inputs, batch, origin, run_start, sites, accesses, executed,
          visited_imports, callers, exit_code>>

\* Dove::new, before main chooses between the script and the prompt.  The
\* HashMap order and the overflow checks are fixed for the life of the process.
Init ==
    /\ pc = "start"
    /\ mode = "none"
    /\ hash_order \in {"forward", "reverse"}
    /\ overflow_checks \in BOOLEAN
    /\ heap = <<Environment_new(0)>>
    /\ environment = Globals
    /\ locals = EmptyMap
    /\ had_runtime_error = FALSE
    /\ sink = <<>>
    /\ statements = <<>>
    /\ next_stmt = 1
    /\ is_repl_unfinished = FALSE
    /\ code_buffer = ""
    /\ inputs = 0
    /\ batch = ""
    /\ origin = <<>>
    /\ run_start = 0
    /\ sites = EmptyMap
    /\ accesses = {}
    /\ executed = <<>>
    /\ visited_imports = <<>>
    /\ callers = <<>>
    /\ exit_code = 0

\* Dove::run from the parser on, up to the call of interpret: parser, resolver.
\* A panic of the parser ends the process.
Dove_compile(tokens, is_in_repl, reported) ==
    \E parsed \in {Parser_program(Parser_new(tokens, is_in_repl, overflow_checks))} :
       IF parsed.p.panicked
       THEN /\ pc' = "aborted"
            /\ sink' = reported \o parsed.p.sink
            /\ UNCHANGED <<is_repl_unfinished, locals, sites, statements, next_stmt>>
       ELSE \E resolver \in {Resolver_visit("Resolver_resolve", <<Resolver_new(locals, sites),
                                  [i \in 1..Len(parsed.v) |-> parsed.v[i].stmt]>>)} :
            /\ pc' = "interpret"
            /\ is_repl_unfinished' = parsed.p.is_in_unfinished_blk
            /\ locals' = resolver.locals
            /\ sites' = resolver.sites
            /\ sink' = reported \o parsed.p.sink \o resolver.sink
            /\ statements' = parsed.v
            /\ next_stmt' = 1

\* a Dove::run that enters its loop over the imports with no import to run
run_without_imports(source, is_in_repl, suspended) ==
    \E scanned \in {Scanner_scan_tokens(Scanner_new(source, inputs + 1))} :
    \E imported \in {Importer_analyze(scanned.tokens)} :
       /\ inputs' = inputs + 1
       /\ batch' = source
       /\ run_start' = Len(sink)
       /\ pc' = "import"
       /\ sink' = sink \o scanned.sink \o imported.sink
       /\ callers' = Append(suspended,
              [source |-> source, tokens |-> imported.tokens,
               imports |-> <<>>, is_in_repl |-> is_in_repl,
               run |-> inputs + 1, run_start |-> Len(sink)])
       /\ UNCHANGED <<is_repl_unfinished, locals, sites, statements, next_stmt,
                      hash_order, overflow_checks, heap, environment,
                      had_runtime_error, code_buffer, origin, accesses, executed>>

\* Dove::run up to its loop over the imports: scanner, importer.  The call joins
\* `suspended`, the calls that are in their loop, with the imports it has to run.
Dove_run(source, is_in_repl, suspended) ==
    \E scanned \in {Scanner_scan_tokens(Scanner_new(source, inputs + 1))} :
    \E imported \in {Importer_analyze(scanned.tokens)} :
       /\ inputs' = inputs + 1
       /\ batch' = source
       /\ run_start' = Len(sink)
       /\ pc' = "import"
       /\ sink' = sink \o scanned.sink \o imported.sink
       /\ callers' = Append(suspended,
              [source |-> source, tokens |-> imported.tokens,
               imports |-> imported.imports, is_in_repl |-> is_in_repl,
               run |-> inputs + 1, run_start |-> Len(sink)])
       /\ UNCHANGED <<is_repl_unfinished, locals, sites, statements, next_stmt,
                      hash_order, overflow_checks, heap, environment,
                      had_runtime_error, code_buffer, origin, accesses, executed>>

\* main with a script argument: run_file reads the script, Dove::run(content, false)
RunFile(source) ==
    /\ pc = "start"
    /\ mode' = "file"
    /\ Dove_run(source, FALSE, callers)
    /\ UNCHANGED <<visited_imports, exit_code>>

\* main without arguments: the prompt loop begins
StartPrompt ==
    /\ pc = "start"
    /\ mode' = "repl"
    /\ pc' = "prompt"
    /\ UNCHANGED <<hash_order, overflow_checks, heap, environment, locals,
                   had_runtime_error, sink, statements, next_stmt, is_repl_unfinished,
                   code_buffer, inputs, batch, origin, run_start, sites, accesses,
                   executed, visited_imports, callers, exit_code>>

\* run_prompt: one line is read and run together with the code buffer
Prompt(line) ==
    /\ pc = "prompt"
    /\ inputs < MaxInputs
    /\ Dove_run(code_buffer \o line, TRUE, callers)
    /\ UNCHANGED <<mode, visited_imports, exit_code>>

\* Dove::run, one turn of its loop over the imports: an import that was visited
\* ends the process with code 92; otherwise it is visited and run_file runs it,
\* ending the process with code 53 when there is no such file
Import ==
    /\ pc = "import"
    /\ \E top \in {callers[Len(callers)]} :
       /\ top.imports # <<>>
       /\ \E import \in {Head(top.imports)} :
          IF \E i \in DOMAIN visited_imports : visited_imports[i] = import
          THEN /\ pc' = "exit"
               /\ exit_code' = 92
               /\ UNCHANGED <<mode, hash_order, overflow_checks, heap, environment,
                              locals, had_runtime_error, sink, statements, next_stmt,
                              is_repl_unfinished, code_buffer, inputs, batch, origin,
                              run_start, sites, accesses, executed, visited_imports,
                              callers>>
          ELSE /\ visited_imports' = Append(visited_imports, import)
               /\ IF import \notin DOMAIN Files
                  THEN /\ pc' = "exit"
                       /\ exit_code' = 53
                       /\ UNCHANGED <<mode, hash_order, overflow_checks, heap,
                                      environment, locals, had_runtime_error, sink,
                                      statements, next_stmt, is_repl_unfinished,
                                      code_buffer, inputs, batch, origin, run_start,
                                      sites, accesses, executed, callers>>
                  ELSE /\ Dove_run(Files[import], FALSE,
                                   [callers EXCEPT ![Len(callers)].imports = Tail(@)])
                       /\ UNCHANGED <<mode, exit_code>>

\* Dove::run after its loop over the imports: the run goes on with the parser
Resume ==
    /\ pc = "import"
    /\ \E top \in {callers[Len(callers)]} :
       /\ top.imports = <<>>
       /\ callers' = SubSeq(callers, 1, Len(callers) - 1)
       /\ batch' = top.source
       /\ run_start' = top.run_start
       /\ Dove_compile(top.tokens, top.is_in_repl, sink)
    /\ UNCHANGED <<mode, hash_order, overflow_checks, heap, environment,
                   had_runtime_error, code_buffer, inputs, origin, accesses, executed,
                   visited_imports, exit_code>>

\* the interpreter as the struct it is: what visit_stmt and visit_expr work on
Interpreter_self ==
    [heap |-> heap, environment |-> environment, locals |-> locals, sink |-> sink,
     accesses |-> accesses, hash_order |-> hash_order, overflow_checks |-> overflow_checks]

\* how many entries of the given kind a sequence of sink entries holds
RECURSIVE Count(_, _)
Count(entries, kind) ==
    IF entries = <<>> THEN 0
    ELSE (IF Head(entries).kind = kind THEN 1 ELSE 0) + Count(Tail(entries), kind)

\* Interpreter::interpret: one turn of its loop over the statements
Interpret ==
    /\ pc = "interpret"
    /\ next_stmt <= Len(statements)
    /\ \E first \in {statements[next_stmt].first} :
       \E r \in {Interpreter_visit("Interpreter_visit_stmt", <<Interpreter_self, statements[next_stmt].stmt>>)} :
       \E output \in {CASE r.r = "Error" -> Append(r.st.sink, runtime_error(r.v))
                       [] r.r \in {"Break", "Continue", "Return"} ->
                            Append(r.st.sink, Reported("Unexpected interrupt: " \o r.r))
                       [] OTHER -> r.st.sink} :
          /\ heap' = r.st.heap
          /\ environment' = r.st.environment
          /\ accesses' = r.st.accesses
          /\ sink' = output
          /\ had_runtime_error' = (had_runtime_error \/ r.r = "Error")
          /\ pc' = IF r.r = "Panic" THEN "aborted" ELSE pc
          /\ executed' = Append(executed,
                 [run |-> first.pos[1], pos |-> first.pos, outcome |-> r.r,
                  raised |-> IF r.r = "Panic" THEN r.v ELSE r.r,
                  reports |-> Count(SubSeq(output, Len(sink) + 1, Len(output)), "error"),
                  environment |-> r.st.environment,
                  input |-> IF mode = "repl" /\ callers = <<>>
                            THEN (origin \o <<inputs>>)[first.line] ELSE 0])
    /\ next_stmt' = next_stmt + 1
    /\ UNCHANGED <<mode, hash_order, overflow_checks, locals, statements,
                   is_repl_unfinished, code_buffer, inputs, batch, origin, run_start,
                   sites, visited_imports, callers, exit_code>>

\* Dove::run returns.  An imported file returns into the loop over the imports
\* of the run that imported it.  Otherwise the script's process exits; the prompt
\* keeps the input in the code buffer when the run left is_repl_unfinished set,
\* and clears it otherwise
Return ==
    /\ pc = "interpret"
    /\ next_stmt > Len(statements)
    /\ IF callers # <<>>
       THEN /\ pc' = "import"
            /\ UNCHANGED <<code_buffer, origin>>
       ELSE /\ pc' = IF mode = "file" THEN "exit" ELSE "prompt"
            /\ code_buffer' = IF mode = "repl" /\ is_repl_unfinished THEN batch ELSE ""
            /\ origin' = IF mode = "repl" /\ is_repl_unfinished
                         THEN origin \o <<inputs>> ELSE <<>>
    /\ UNCHANGED <<mode, hash_order, overflow_checks, heap, environment, locals,
                   had_runtime_error, sink, statements, next_stmt, is_repl_unfinished,
                   inputs, batch, run_start, sites, accesses, executed,
                   visited_imports, callers, exit_code>>

Next ==
    \/ \E source \in Programs : RunFile(source)
    \/ StartPrompt
    \/ \E line \in Lines : Prompt(line)
    \/ Import
    \/ Resume
    \/ Interpret
    \/ Return

Spec == Init /\ [][Next]_vars

\* ------------------------------------------------------------------------
\* Properties
\* ------------------------------------------------------------------------

\* the process has ended: main returned, or a panic aborted it
Ended == pc \in {"exit", "aborted"}

\* the values the globals frame holds
GlobalValues == {heap[Globals].values[name] : name \in DOMAIN heap[Globals].values}

\* C1: every variable read or write the interpreter executes uses the depth the
\* resolver computed for that very reference site, and goes through globals when
\* the resolver found no enclosing declaration for the site.
C1_AccessAtResolvedDepth ==
    \A a \in accesses :
        a.depth = IF a.pos \in DOMAIN sites THEN sites[a.pos] ELSE -1

\* C2: the script with fib written on one line, followed by `print fib(10)`,
\* sends exactly 55 to the print sink and nothing to the error sink.
C2_FibPrints55 ==
    (mode = "file" /\ batch = FibOneLine /\ Ended)
        => (pc = "exit" /\ sink = <<Printed("55")>>)

\* C3: across any sequence of inputs at the prompt, no statement is executed more
\* than once: a statement is the line typed at the prompt it begins on, and its
\* place in the buffered text.
C3_ExecutedOnce ==
    mode = "repl" =>
        \A i, j \in DOMAIN executed :
            i # j => <<executed[i].input, executed[i].pos[2]>>
                        # <<executed[j].input, executed[j].pos[2]>>

\* C4: when a top-level statement raises a runtime error, the error reaches
\* interpret() and is reported exactly once, had_runtime_error is set, the current
\* environment is again the globals frame, and the statements that follow are still
\* executed: when the run returns, every statement of the batch has been executed.
C4_RuntimeErrorReported ==
    \A i \in DOMAIN executed :
        executed[i].raised = "Error" =>
            /\ executed[i].outcome = "Error"
            /\ executed[i].reports = 1
            /\ had_runtime_error
            /\ executed[i].environment = Globals
            /\ (executed[i].run = inputs /\ pc \in {"exit", "prompt"})
                  => Cardinality({j \in DOMAIN executed : executed[j].run = inputs})
                        = Len(statements)

\* C5: an interrupt raised while a sub-expression is evaluated propagates to
\* interpret(); no statement ends with the process aborted on an interrupt.
C5_InterruptsPropagate ==
    \A i \in DOMAIN executed :
        ~(executed[i].outcome = "Panic"
          /\ executed[i].raised \in {"Error", "Break", "Continue", "Return"})

\* C6: break ends the innermost loop, continue starts its next iteration, and a
\* return raised anywhere inside loops, blocks or if branches of a function body
\* ends the call with the returned value: each of the loop scripts runs to its end
\* and prints what these rules give.
C6_LoopInterrupts ==
    \A p \in LoopPrograms :
        (mode = "file" /\ batch = p.source /\ Ended)
            => (pc = "exit" /\ sink = Prints(p.prints))

C8_ElseIfChain ==
    \A p \in ElseIfPrograms :
        (mode = "file" /\ batch = p.source /\ Ended)
            => (pc = "exit" /\ sink = Prints(p.prints))

\* the cell a holder's value refers to
Observed(name) == heap[heap[Globals].values[name].ref]

\* C9: an aggregate given to a second holder by assignment, or passed as an
\* argument and returned, is shared: at every point of a script that mutates it
\* through either holder, both holders observe the same contents; the array that
\* `a + b` yields is a new one, whose mutations (7 pushed, 8 stored) show in
\* neither operand.
C9_SharedAggregates ==
    (mode = "file" /\ batch \in AliasScripts) =>
        LET declared == DOMAIN heap[Globals].values
        IN /\ {"a", "b"} \subseteq declared => Observed("a") = Observed("b")
           /\ {"a", "c"} \subseteq declared =>
                 /\ heap[Globals].values["c"].ref # heap[Globals].values["a"].ref
                 /\ \A i \in DOMAIN Observed("a").items :
                        Observed("a").items[i] \notin {IntNumber(7), IntNumber(8)}

\* C9, reached: 3 pushed through a and 9 stored through b are seen by both
\* holders, and the concatenation has been mutated on its own
C9_Witness ==
    /\ mode = "file"
    /\ batch = "let a = [1, 2]\nfun id(x) {\n return x\n}\nlet b = id(a)\n"
                \o "a.push(3)\nb[0] = 9\n" \o "let c = a + b\nc.push(7)\nc[0] = 8"
    /\ pc = "exit"
    /\ Observed("b").items = <<IntNumber(9), IntNumber(2), IntNumber(3)>>
    /\ Observed("a").items = <<IntNumber(9), IntNumber(2), IntNumber(3)>>
    /\ Observed("c").items = <<IntNumber(8), IntNumber(2), IntNumber(3), IntNumber(9),
                               IntNumber(2), IntNumber(3), IntNumber(7)>>

\* `left == right` and `left != right` as visit_expr evaluates them
Compare(lexeme, left, right) ==
    Interpreter_binary(Interpreter_self,
        Token(IF lexeme = "==" THEN "EQUAL_EQUAL" ELSE "BANG_EQUAL", lexeme, None, 1, <<0, 0>>),
        left, right)

\* C10: `==` is defined for every ordered pair of values, `x == y` and `y == x`
\* give the same Boolean, and `!=` is its negation.
C10_EqualityTotal ==
    \A x, y \in GlobalValues :
        IF Compare("==", x, y).r = "Ok" /\ Compare("==", y, x).r = "Ok"
           /\ Compare("!=", x, y).r = "Ok"
        THEN /\ Compare("==", x, y).v = Compare("==", y, x).v
             /\ Compare("!=", x, y).v = Boolean(~Compare("==", x, y).v.v)
        ELSE FALSE

\* C11: a Number without fraction is accepted as a dictionary key in a literal, a
\* read and a write, and addresses the same entry in each, so the scripts print the
\* value stored under it; a Number with a fraction is rejected with one runtime
\* error, and the dictionary d keeps its one entry.
C11_DictionaryKeys ==
    /\ \A p \in IntegerKeyPrograms :
          (mode = "file" /\ batch = p.source /\ Ended)
              => (pc = "exit" /\ sink = Prints(p.prints))
    /\ \A p \in FractionalKeyPrograms :
          (mode = "file" /\ batch = p /\ Ended)
              => /\ pc = "exit"
                 /\ Count(sink, "error") = 1
                 /\ DOMAIN heap[Globals].values = {"d"}
                 /\ Observed("d").entries = <<[key |-> StringKey("k"), val |-> IntNumber(0)]>>

\* C12: calling a class gives a new instance without fields; the nearest `init` of
\* the class and its ancestors is bound to it and run once the arity check has
\* passed, a wrong number of arguments is one runtime error before any statement of
\* the body runs, and the value of the call is the instance whatever init returns.
C12_ClassCall ==
    \A c \in ClassCallPrograms :
        (mode = "file" /\ batch = c.source /\ Ended) =>
            /\ pc = "exit"
            /\ sink = IF c.errors = 0 THEN Prints(c.prints) ELSE <<sink[1]>>
            /\ Count(sink, "error") = c.errors
            /\ IF c.errors # 0 THEN "p" \notin DOMAIN heap[Globals].values
               ELSE /\ heap[Globals].values["p"].t = "Instance"
                    /\ DOMAIN Observed("p").fields = c.fields

\* C12, reached: the init inherited from A has run on the instance B() gave
C12_Witness ==
    /\ mode = "file"
    /\ batch = "class A {\n fun init() {\n self.x = 1\n }\n}\nclass B from A {\n}\nlet p = B()"
    /\ pc = "exit"
    /\ heap[Globals].values["p"].t = "Instance"
    /\ Observed("p").fields = MapPut(EmptyMap, "x", IntNumber(1))

\* C13: `p.name` on an instance gives the field of that name if there is one, and
\* otherwise the method of the class or its nearest ancestor bound to p, which is
\* stored in the fields under the name, so that a later read gives the same
\* callable; a name that is neither is one runtime error and leaves the fields as
\* they were.
C13_InstanceProperty ==
    \A c \in PropertyPrograms :
        (mode = "file" /\ batch = c.source /\ Ended) =>
            /\ pc = "exit"
            /\ sink = IF c.errors = 0 THEN Prints(c.prints) ELSE <<sink[1]>>
            /\ Count(sink, "error") = c.errors
            /\ DOMAIN Observed("p").fields = c.fields
            /\ \A name \in c.holders :
                  heap[Globals].values[name] = Observed("p").fields["m"]

\* C13, reached: the method read twice is one bound function, kept in the fields
\* of p, and its call has read the field x through self
C13_Witness ==
    /\ mode = "file"
    /\ batch = "class P {\n fun m() {\n self.x\n }\n}\nlet p = P()\np.x = 4\nlet f = p.m\nlet g = p.m\nprint f()"
    /\ pc = "exit"
    /\ sink = <<Printed("4")>>
    /\ heap[Globals].values["f"].t = "Function"
    /\ heap[Globals].values["g"] = heap[Globals].values["f"]
    /\ Observed("p").fields["m"] = heap[Globals].values["f"]

\* the frames that hold the given name
Holding(name) ==
    {i \in DOMAIN heap : heap[i].k = "env" /\ name \in DOMAIN heap[i].values}

\* C14: `super.m` in a method declared in B looks m up from B's superclass and
\* binds it to the current self: on an instance of C, which overrides m, the
\* method n inherited from B runs A's m once, with self the instance of C; and a
\* frame holding `self` of a method of a subclass has the frame holding `super` as
\* its enclosing frame.
C14_SuperLookup ==
    /\ \A b \in SuperBodies :
          (mode = "file" /\ batch = SuperScript(b.body) /\ Ended)
              => (pc = "exit" /\ sink = Prints(b.prints))
    /\ (mode = "file" /\ batch \in {SuperScript(b.body) : b \in SuperBodies})
          => \A i \in Holding("self") :
                heap[i].enclosing \in Holding("super") \cup {Globals}

\* C15: the resolver reports a return outside a function, a return with a value in
\* init, a break or continue outside the loops of its function (a function or
\* lambda declared in a loop starts outside, and the loop goes on after it), a self
\* outside a class, a super outside a class or in a class without superclass, and
\* a class that names itself as superclass; it reports nothing else: when the
\* interpreter starts on a script, the sink holds exactly these reports.
C15_ResolverErrors ==
    \A p \in ResolverPrograms :
        (mode = "file" /\ batch = p.source /\ pc = "interpret" /\ next_stmt = 1)
            => sink = p.errors

\* C15, reached: the break in the function declared inside the loop is reported
\* and the break of the loop after it is not
C15_Witness ==
    /\ mode = "file"
    /\ batch = "while false {\n fun f() {\n break\n }\n break\n}"
    /\ pc = "interpret"
    /\ next_stmt = 1
    /\ Len(statements) = 1
    /\ sink = <<Reported("[line 3] Error at 'break': Break statements can only be used inside loops.")>>

\* the frames of the heap
Frames == {i \in DOMAIN heap : heap[i].k = "env"}

\* the frame `distance` steps up from env, or 0 when the chain ends before
RECURSIVE FrameUp(_, _)
FrameUp(env, distance) ==
    IF distance = 0 \/ env = 0 THEN env ELSE FrameUp(heap[env].enclosing, distance - 1)

\* the texts a sink holds as printed
PrintedIn(entries) == SelectSeq(entries, LAMBDA entry : entry.kind = "print")

\* C16: assignment never creates a binding.  From every frame of every heap a
\* script reaches, assign_at writes the frame `distance` steps up and nothing else,
\* and only when that frame has the name; otherwise it fails and the heap is as it
\* was.  A script that assigns to a name it never declares reports a runtime error
\* for the assignment, goes on, and no frame ever holds the name.
C16_AssignNeverBinds ==
    /\ \A env \in Frames, distance \in 0..MaxDistance :
       \A name \in {"a", "n", "i", "x", "self"} :
          LET r == Environment_assign_at(heap, env, distance, name, IntNumber(99))
              frame == FrameUp(env, distance)
          IN IF frame # 0 /\ name \in DOMAIN heap[frame].values
             THEN /\ r.ok
                  /\ r.heap = [heap EXCEPT ![frame].values[name] = IntNumber(99)]
             ELSE ~r.ok /\ r.heap = heap
    /\ \A c \in AssignPrograms :
          (mode = "file" /\ batch = c.source) =>
              /\ \A env \in Frames : DOMAIN heap[env].values \cap c.unbound = {}
              /\ Ended => /\ pc = "exit"
                          /\ PrintedIn(sink) = Prints(c.prints)
                          /\ Count(sink, "error") = c.errors

\* C16, reached: the call has assigned 5 to its parameter in the call's frame, the
\* assignment to m has failed and the script has gone on
C16_Witness ==
    /\ mode = "file"
    /\ batch = "fun f(n) {\n n = 5\n m = 6\n}\nf(1)\nprint 1"
    /\ pc = "exit"
    /\ sink = <<Reported("[line 3] Error at 'm': Cannot assign value to 'm', as it is not found in scope."),
                Printed("1")>>
    /\ \E env \in Frames :
          /\ heap[env].values = MapPut(EmptyMap, "n", IntNumber(5))
          /\ Environment_assign_at(heap, env, 1, "f", Nil).ok
          /\ ~Environment_assign_at(heap, env, 1, "n", Nil).ok

\* C17: `a and b` does not evaluate b when a is falsy and `a or b` does not when a
\* is truthy, so the call that is the right operand prints nothing then; the
\* result is the Boolean the truthiness of the operands gives, with only nil and
\* false falsy.
C17_ShortCircuit ==
    \A p \in LogicPrograms :
        (mode = "file" /\ batch = p.source /\ Ended)
            => (pc = "exit" /\ sink = Prints(p.prints))

\* `left..right` (extra = 0) and `left...right` (extra = 1) as visit_expr evaluates them
RangeOf(extra, left, right) ==
    Interpreter_binary(Interpreter_self,
        Token(IF extra = 0 THEN "DOT_DOT" ELSE "DOT_DOT_DOT",
              IF extra = 0 THEN ".." ELSE "...", None, 1, <<0, 0>>),
        left, right)

\* the operands: the integers up to MaxOperand, a Number with a fraction, and
\* values that are no Numbers
RangeOperands ==
    {IntNumber(n) : n \in (-MaxOperand)..MaxOperand} \cup {Number(1, 2), Nil, String("2")}

\* C18: for operands a and b without fraction, `a..b` is the tuple of the |b-a|
\* Numbers from a towards b in steps of one, b excluded, and `a...b` is the same
\* followed by b, |b-a|+1 Numbers; an operand that is no Number or has a fraction
\* is a runtime error.
C18_Ranges ==
    (mode = "file" /\ batch \in {p.source : p \in RangePrograms} \cup {LongRange}) =>
        /\ \A a, b \in RangeOperands, extra \in {0, 1} :
              IF a.t = "Number" /\ b.t = "Number" /\ a.d = 1 /\ b.d = 1
              THEN /\ RangeOf(extra, a, b).r = "Ok"
                   /\ RangeOf(extra, a, b).v =
                         Tuple([i \in 1..(Abs(b.n - a.n) + extra) |->
                                   IntNumber(a.n + (i - 1) * (IF b.n >= a.n THEN 1 ELSE -1))])
              ELSE RangeOf(extra, a, b).r = "Error"
        /\ \A p \in RangePrograms :
              (batch = p.source /\ Ended) => (pc = "exit" /\ sink = Prints(p.prints))
        /\ RangeOf(1, IntNumber(0), IntNumber(MaxI32)).r = "Ok"
        /\ Len(RangeOf(1, IntNumber(0), IntNumber(MaxI32)).v.v) - 1 = MaxI32
        /\ (batch = LongRange /\ Ended)
              => (pc = "exit" /\ Len(sink) = 1 /\ sink[1].kind = "print" /\ sink[1].msg # "()")

\* how many `{` of a text are still open at its end
RECURSIVE OpenBraces(_)
OpenBraces(text) ==
    IF text = "" THEN 0
    ELSE OpenBraces(SubSeq(text, 1, Len(text) - 1))
         + (CASE SubSeq(text, Len(text), Len(text)) = "{" -> 1
              [] SubSeq(text, Len(text), Len(text)) = "}" -> -1
              [] OTHER -> 0)

\* C19: at the prompt is_repl_unfinished is set only when the input so far leaves
\* a block or a dictionary literal open; an input with balanced braces and another
\* syntax error in a block, `if true { let = 1 }`, has its error reported and
\* leaves the prompt ready with an empty buffer; a script never sets the flag, and
\* its missing `}` is reported.
C19_UnfinishedOnlyWhenOpen ==
    /\ (mode = "repl" /\ pc = "prompt") =>
          /\ is_repl_unfinished => OpenBraces(code_buffer) > 0
          /\ ~is_repl_unfinished => code_buffer = ""
          /\ (inputs > 0 /\ batch = MalformedLine) =>
                /\ ~is_repl_unfinished
                /\ Count(SubSeq(sink, run_start + 1, Len(sink)), "error") = 1
    /\ mode = "file" => ~is_repl_unfinished
    /\ (mode = "file" /\ batch = UnclosedScript /\ Ended) => Count(sink, "error") = 1

\* the index of the first token that is neither a NEWLINE nor part of a pair of
\* `import` and a string, from index i on
RECURSIVE AfterImports(_, _)
AfterImports(tokens, i) ==
    CASE tokens[i].token_type = "NEWLINE" -> AfterImports(tokens, i + 1)
      [] tokens[i].token_type = "IMPORT" /\ tokens[i + 1].token_type = "STRING" ->
           AfterImports(tokens, i + 2)
      [] OTHER -> i

\* the strings of the tokens before index n that follow an `import`, without
\* their quotes
RECURSIVE ImportPaths(_, _)
ImportPaths(tokens, n) ==
    IF n <= 2 THEN <<>>
    ELSE ImportPaths(tokens, n - 1)
         \o (IF tokens[n - 1].token_type = "STRING" /\ tokens[n - 2].token_type = "IMPORT"
             THEN <<SubSeq(tokens[n - 1].lexeme, 2, Len(tokens[n - 1].lexeme) - 1)>>
             ELSE <<>>)

\* C20: Importer::analyze removes from the front of the tokens the NEWLINEs and
\* the pairs of `import` and a string, and nothing else: the first other token, a
\* string literal that begins the first statement included, and all that follow
\* are returned as they were, up to EOF; the paths are returned in order, without
\* their quotes.
C20_ImporterPrefix ==
    (mode = "file" /\ batch \in ImportPrograms) =>
        LET tokens == Scanner_scan_tokens(Scanner_new(batch, 1)).tokens
            analyzed == Importer_analyze(tokens)
            first == AfterImports(tokens, 1)
        IN /\ analyzed.tokens = SubSeq(tokens, first, Len(tokens))
           /\ analyzed.imports = ImportPaths(tokens, first)
           /\ analyzed.tokens[Len(analyzed.tokens)].token_type = "EOF"

\* the script main was given: the source of the outermost run
Script == IF callers = <<>> THEN batch ELSE callers[1].source

\* what C21 says of every state
ImportsRunFirst ==
    /\ \A i \in DOMAIN callers : \A j \in DOMAIN executed :
          executed[j].run # callers[i].run
    /\ \A i, j \in DOMAIN visited_imports :
          i # j => visited_imports[i] # visited_imports[j]
    /\ mode = "file" => inputs <= Len(visited_imports) + 1
    /\ \A p \in ImportingPrograms :
          (mode = "file" /\ Script = p.source /\ Ended)
             => (pc = "exit" /\ exit_code = p.code /\ sink = Prints(p.prints))

\* how far the process has come: the runs begun, those of them that are in their
\* loop over the imports, and the statements interpreted
Progress ==
    4 * inputs - 2 * Len(callers) + Len(executed) + (IF pc = "import" THEN 1 ELSE 0)

C22_BlockOrDictionary ==
    \A b \in BracePrograms :
        batch = b.source =>
            \A is_in_repl \in BOOLEAN :
                LET tokens == Scanner_scan_tokens(Scanner_new(batch, 1)).tokens
                    p == Parser_new(tokens, is_in_repl, overflow_checks)
                    tried == Parser_rule("Parser_statement", <<p>>)
                    direct == Parser_rule("Parser_block", <<p>>)
                IN IF b.pairs >= 0
                   THEN /\ tried.ok
                        /\ tried.v.s = "Expression"
                        /\ tried.v.expr.e = "Dictionary"
                        /\ Len(tried.v.expr.pairs) = b.pairs
                        /\ tokens[tried.p.current].token_type = "RIGHT_BRACE"
                        /\ tried.p.sink = <<>>
                   ELSE /\ tried.ok = direct.ok
                        /\ tried.v = direct.v
                        /\ tried.p.sink = direct.p.sink
                        /\ tried.p.is_in_unfinished_blk = direct.p.is_in_unfinished_blk
                        /\ tried.p.ignore_newline = direct.p.ignore_newline
                        /\ tried.p.current = direct.p.current
                        /\ tried.p.nested_level = direct.p.nested_level

\* C23: Parser::program returns for every script; after a statement that fails to
\* parse the error is reported and parsing resumes after the skipped region: the
\* well-formed top-level statements before the failing statement and after the
\* skipped region are in the result, in source order, and the failing statement
\* is not, also for scripts with an unmatched `)` or `]`.
C23_ParserRecovers ==
    \A r \in RecoveryPrograms :
        batch = r.source =>
            LET tokens == Scanner_scan_tokens(Scanner_new(batch, 1)).tokens
                parsed == Parser_program(Parser_new(tokens, FALSE, overflow_checks))
                lines == [i \in 1..Len(parsed.v) |-> parsed.v[i].first.line]
                IsKept(line) == \E i \in DOMAIN r.kept : r.kept[i] = line
            IN /\ ~parsed.p.panicked
               /\ parsed.p.had_error
               /\ SelectSeq(lines, IsKept) = r.kept
               /\ \A i \in DOMAIN lines : lines[i] # r.failing \/ IsKept(r.failing)

\* the kinds of the tokens, in order
Kinds(tokens) == [i \in 1..Len(tokens) |-> tokens[i].token_type]

\* the tokens written out from index i on: a line break for a NEWLINE, the lexeme
\* for every other token, a space between two lexemes that follow each other
RECURSIVE Written(_, _)
Written(tokens, i) ==
    IF i > Len(tokens) THEN ""
    ELSE LET token == tokens[i]
             gap == IF i < Len(tokens) /\ token.token_type # "NEWLINE"
                       /\ tokens[i + 1].token_type \notin {"NEWLINE", "EOF"}
                    THEN " " ELSE ""
         IN (IF token.token_type = "NEWLINE" THEN "\n" ELSE token.lexeme)
            \o gap \o Written(tokens, i + 1)

\* the tokens of a text scan again, once written out, to the same kinds, and end
\* with the only EOF
ScansAgain(text) ==
    LET tokens == Scanner_scan_tokens(Scanner_new(text, 1)).tokens
        again == Scanner_scan_tokens(Scanner_new(Written(tokens, 1), 1)).tokens
    IN /\ Kinds(again) = Kinds(tokens)
       /\ tokens[Len(tokens)].token_type = "EOF"
       /\ \A i \in 1..Len(tokens) - 1 : tokens[i].token_type # "EOF"

\* C24: the tokens of every text the driver scans, and of every short text over
\* the alphabet, written out with a line break for each NEWLINE and a space
\* between lexemes, scan to the same kinds in the same order; every scan result
\* ends with its only EOF.
C24_ScanRoundTrip ==
    /\ inputs > 0 => ScansAgain(batch)
    /\ pc = "start" => \A text \in Texts : ScansAgain(text)

\* a script with operators of several lengths, a number with a fractional part
\* and ranges has been scanned, and its tokens written out differ from it
C24_Witness ==
    /\ batch = "1.5.x 1..2 1...3 7.\n"
    /\ Written(Scanner_scan_tokens(Scanner_new(batch, 1)).tokens, 1)
          = "1.5 . x 1 .. 2 1 ... 3 7 .\n"

\* C25: a reference the resolver treated as global in its own batch is accessed
\* through globals, whatever earlier batches recorded: a script that imports a
\* file which defines the global x and has a local x on its line 2 reads and
\* writes that global from its own line 2 as from any other line, and at the
\* prompt `print x` after `let x = 5` prints 5, also when an earlier input had a
\* local x.
C25_BatchesIndependent ==
    /\ \A p \in LaterBatchPrograms :
          (mode = "file" /\ Script = p.source) =>
             /\ \A a \in accesses :
                   (a.pos[1] = 1 /\ a.pos \notin DOMAIN sites) => a.depth = -1
             /\ Ended => (pc = "exit" /\ sink = Prints(p.prints))
    /\ (mode = "repl" /\ pc = "prompt" /\ batch = "print x\n"
          /\ "x" \in DOMAIN heap[Globals].values)
          => sink[Len(sink)] = Printed("5")

\* C26: after the closing delimiter of a group, tuple, array, dictionary, index,
\* argument list or parameter list, the empty tuple `()` included, ignore_newline
\* is what it was before the opening delimiter: the NEWLINE after the construct
\* ends the statement, and the next line is parsed as the second statement,
\* without any error.
C26_NewlineAfterDelimiters ==
    \A n \in NewlinePrograms :
        batch = n.source =>
            LET tokens == Scanner_scan_tokens(Scanner_new(batch, 1)).tokens
                p == Parser_new(tokens, FALSE, overflow_checks)
                first == Parser_rule("Parser_declaration", <<p>>)
                parsed == Parser_program(p)
            IN /\ first.ok
               /\ ~first.p.ignore_newline
               /\ Parser_peek(first.p).token_type = "NEWLINE"
               /\ parsed.p.sink = <<>>
               /\ [i \in 1..Len(parsed.v) |-> parsed.v[i].first.line] = <<1, n.second>>

\* C27: the parser reports an error for a statement with a malformed element in
\* an argument list, an array, a tuple or a dictionary, and then the statement is
\* not in the result; it reports none for the well-formed statement, which is.
C27_MalformedElementsReported ==
    \A e \in ElementPrograms :
        batch = e.source =>
            LET tokens == Scanner_scan_tokens(Scanner_new(batch, 1)).tokens
                parsed == Parser_program(Parser_new(tokens, FALSE, overflow_checks))
            IN /\ parsed.p.had_error = e.malformed
               /\ (parsed.p.sink # <<>>) = e.malformed
               /\ Len(parsed.v) = IF e.malformed THEN 0 ELSE 1

\* the opening delimiters minus the closing delimiters among the first n tokens
RECURSIVE Depth(_, _)
Depth(tokens, n) ==
    IF n = 0 THEN 0
    ELSE Depth(tokens, n - 1)
         + (CASE tokens[n].token_type \in {"LEFT_PAREN", "LEFT_BRACKET", "LEFT_BRACE"} -> 1
              [] tokens[n].token_type \in {"RIGHT_PAREN", "RIGHT_BRACKET", "RIGHT_BRACE"} -> -1
              [] OTHER -> 0)

\* C28: when Parser::program has consumed the tokens of a script, errors and
\* synchronize() included, nested_level is the number of opening delimiters minus
\* the number of closing delimiters consumed; for a script with a closing
\* delimiter that nothing opened the parser does not panic and nested_level is
\* not below zero.
C28_NestedLevel ==
    batch \in DelimiterPrograms =>
        LET tokens == Scanner_scan_tokens(Scanner_new(batch, 1)).tokens
            parsed == Parser_program(Parser_new(tokens, FALSE, overflow_checks))
        IN /\ ~parsed.p.panicked
           /\ parsed.p.nested_level >= 0
           /\ (\A n \in 1..Len(tokens) : Depth(tokens, n) >= 0)
                 => parsed.p.nested_level = Depth(tokens, Len(tokens))

\* C29: for a variable, an indexed element and a property holding 6, each of
\* `= 2`, `+= 2`, `-= 2`, `*= 2`, `/= 2`, `++` and `--` stores 2, 8, 4, 12, 3, 7
\* and 5 in the target: the script runs to its end without an error and the
\* target prints as that value.
C29_CompoundAssignment ==
    \A target \in Targets : \A f \in CompoundForms :
        (mode = "file" /\ batch = CompoundScript(target, f.form) /\ Ended)
            => (pc = "exit" /\ sink = Prints(<<f.prints>>))

\* C30: a `for` over an Array runs iteration i = 0, 1, 2, ... in a fresh frame
\* binding the loop variable to the element at index i at that moment, until i
\* is not below the array's current length: appended elements are visited,
\* removals shift the later elements down, a loop that appends in every
\* iteration goes on until a break; a `for` over a Tuple visits the elements
\* the tuple had when the loop began. Each of the loop scripts prints what
\* these rules give.
C30_ForIteration ==
    \A p \in ForPrograms :
        (mode = "file" /\ batch = p.source /\ Ended)
            => (pc = "exit" /\ sink = Prints(p.prints))

\* C30, reached: the loop has visited the element its first iteration appended
C30_Witness ==
    /\ mode = "file" /\ pc = "exit"
    /\ batch = "let a = [1, 2]\nfor x in a {\n print x\n if x == 1 {\n a.push(3)\n }\n}"
    /\ sink = Prints(<<"1", "2", "3">>)

====
